---------------------------- MODULE Spec2Model ----------------------------
(***************************************************************************)
(* A model of src/shared_ptr.h: the sp::control_block reference counting   *)
(* protocol, sp::shared_ptr, sp::weak_ptr and sp::enable_shared_from_this. *)
(*                                                                         *)
(* Spec      the handlers executed one at a time (each action is one whole *)
(*           constructor, assignment, reset, destructor or observer call,  *)
(*           temporaries and their destructors included).                  *)
(* SpecConc  two or more threads, each with its own shared_ptr, weak_ptr   *)
(*           and result variable, interleaved at the level of the single   *)
(*           atomic counter operations of control_block.                   *)
(* SpecLock  SpecConc with weak_ptr::lock(), one step per counter access.  *)
(* SpecDel   unique_ptr and the shared_ptr constructors that bind a        *)
(*           deleter; SpecGet adds get_deleter.                            *)
(* SpecUnique  the handlers of sp::unique_ptr, one at a time.              *)
(* SpecNull  shared_ptr(nullptr, d) among the handlers of sp::shared_ptr   *)
(*           and sp::weak_ptr.                                             *)
(* SpecMin   the handlers of the minimal ::shared_ptr at the head of the   *)
(*           file, one at a time, wrapping non-null pointers; SpecMinNull  *)
(*           wraps nullptr as well.                                        *)
(*                                                                         *)
(* Control blocks and the objects they are created for share their         *)
(* numbers: block b is the block `new control_block<U>{p}` makes for the   *)
(* object number b (or for nullptr).  Pointer 0 is nullptr.  A block       *)
(* number is never handed out twice, so a dangling reference stays         *)
(* recognisable.                                                           *)
(***************************************************************************)
EXTENDS Integers, FiniteSets, Sequences, TLC

\* Bounds of the model.
MaxBlocks == 2      \* control blocks (and objects) a run may allocate
NumCells == 3       \* smart-pointer variables of the sequential program
NumThreads == 2     \* threads of the concurrent program
NumUnique == 3      \* unique_ptr variables of the programs with deleters

Blocks == 1..MaxBlocks
\* Stored pointers: nullptr, the objects, and Member, the address of
\* something inside an object that no control block was created for (what
\* the aliasing constructor is given).
Member == MaxBlocks + 1
Ptrs == 0..Member
AliasPtrs == {Member}
\* A cell is a variable of the program: it holds a shared_ptr (sp[i]), a
\* weak_ptr (wp[i]) or, when both are the empty pair, a destroyed or
\* default-constructed pointer of either type.
Cells == 1..NumCells
Threads == 1..NumThreads
\* The unique_ptr variables of the program.
UCells == 1..NumUnique
\* Deleter types: the default template argument default_delete<T>, and a
\* deleter type of the caller.
Deleters == {"default_delete", "custom"}

\* A shared_ptr or weak_ptr: the pair (_ptr, _control_block).
Handle == [ptr : Ptrs, cb : 0..MaxBlocks]
\* constexpr shared_ptr() / weak_ptr(): _ptr{}, _control_block{}.
Empty == [ptr |-> 0, cb |-> 0]

VARIABLES
    _use_count,         \* control_block::_use_count, per block
    _weak_use_count,    \* control_block::_weak_use_count, per block
    _impl,              \* control_block::_impl pointer, per block
    cb_mem,             \* per block: "unalloc", "live", "freed", "freed_twice"
    deleted,            \* per object: how often a deleter ran on it (capped)
    sp,                 \* per cell: the shared_ptr it holds
    wp,                 \* per cell: the weak_ptr it holds
    weak_this,          \* enable_shared_from_this::weak_this, per object
    status,             \* how the last handler ended
    tsp,                \* per thread: its shared_ptr
    twp,                \* per thread: its weak_ptr
    tres,               \* per thread: its second shared_ptr (a copy, or
                        \* what lock() returned)
    pc,                 \* per thread: where it is inside a handler
    tcb,                \* per thread: the this pointer of the member it runs
    _deleter,           \* per block: the type D of control_block<T, D>
    up,                 \* per unique_ptr variable: its pointer and deleter
    up_deleted,         \* per object: how often a unique_ptr's deleter ran
                        \* on it (capped)
    got,                \* what the last get_deleter<D>(sp) returned
    released,           \* per object: unique_ptr::release() gave it to the
                        \* caller, who holds it still
    msp,                \* per cell: the minimal ::shared_ptr it holds
    _ref_count,         \* per counter of the minimal shared_ptr: its value
    rc_mem,             \* per counter: "unalloc", "live", "freed", ...
    del_mem,            \* per deleter object: "unalloc", "live", "freed", ...
    m_deleted           \* per object: how often a deleter<T> ran on it
                        \* (capped)

thr == <<tsp, twp, tres, pc, tcb>>
ext == <<_deleter, up, up_deleted, got, released>>
mini == <<msp, _ref_count, rc_mem, del_mem, m_deleted>>
vars == <<_use_count, _weak_use_count, _impl, cb_mem, deleted, sp, wp,
          weak_this, status, thr, ext, mini>>

\* A handler that returned ("ok") or threw to its caller ("bad_weak_ptr")
\* leaves a running program; every other status is a dead process.
Running == status \in {"ok", "bad_weak_ptr"}

Cap2(n) == IF n > 2 THEN 2 ELSE n

(***************************************************************************)
(* The heap as one value, so that a handler is a composition of calls.     *)
(***************************************************************************)
Heap ==
    [use |-> _use_count, weak |-> _weak_use_count, impl |-> _impl,
     mem |-> cb_mem, del |-> deleted, status |-> "ok"]

\* A call through a null control-block pointer, or into a freed block, is
\* undefined: the status records it, and the member still acts on the stale
\* memory of a freed block.
Touch(h, b) ==
    IF h.status \notin {"ok", "bad_weak_ptr"} THEN h
    ELSE IF b = 0 THEN [h EXCEPT !.status = "null_call"]
    ELSE IF h.mem[b] # "live" THEN [h EXCEPT !.status = "use_after_free"]
    ELSE h

\* new control_block<U>{p}: _use_count{1}, _weak_use_count{1}, _impl{p}.
new_control_block(h, b, p) ==
    [h EXCEPT !.use[b] = 1, !.weak[b] = 1, !.impl[b] = p, !.mem[b] = "live"]

\* The read-modify-write operations of the two std::atomic<long> counters.
\* ++_use_count
pre_inc_use(h, b) == [h EXCEPT !.use[b] = @ + 1]
\* Mutant of pre_dec_use: the decrement is lost.
pre_dec_use_lost(h, b) == h

\* --_use_count
pre_dec_use(h, b) == [h EXCEPT !.use[b] = @ - 1]
\* ++_weak_use_count
pre_inc_weak(h, b) == [h EXCEPT !.weak[b] = @ + 1]
\* --_weak_use_count
pre_dec_weak(h, b) == [h EXCEPT !.weak[b] = @ - 1]

\* Mutant of inc_ref: the increment is lost.
inc_ref_lost(h, b) == Touch(h, b)

\* void inc_ref() noexcept { ++_use_count; }
inc_ref(h, b) ==
    LET t == Touch(h, b) IN
    IF b = 0 THEN t ELSE pre_inc_use(t, b)

\* Mutant of inc_wref: the increment is lost.
inc_wref_lost(h, b) == Touch(h, b)

\* void inc_wref() noexcept { ++_weak_use_count; }
inc_wref(h, b) ==
    LET t == Touch(h, b) IN
    IF b = 0 THEN t ELSE pre_inc_weak(t, b)

\* delete this
delete_this(h, b) ==
    [h EXCEPT !.mem[b] = IF @ = "live" THEN "freed" ELSE "freed_twice"]

\* Mutant of dec_wref: the block is never deleted.
dec_wref_keeps(h, b) ==
    LET t == Touch(h, b) IN
    IF b = 0 THEN t ELSE pre_dec_weak(t, b)

\* void dec_wref() noexcept { if (--_weak_use_count == 0) delete this; }
dec_wref(h, b) ==
    LET t == Touch(h, b) IN
    IF b = 0 THEN t
    ELSE LET t1 == pre_dec_weak(t, b) IN
         IF t1.weak[b] = 0 THEN delete_this(t1, b) ELSE t1

\* _deleter(_ptr): destroy the object _ptr points to; a second run on the
\* same object is a double delete.
run_deleter(h, p) ==
    [h EXCEPT !.del[p] = Cap2(@ + 1),
              !.status = IF h.del[p] > 0 /\ @ \in {"ok", "bad_weak_ptr"}
                         THEN "double_delete" ELSE @]

\* Mutant of dec_ref: the weak unit of the strong owners is given up at
\* every decrement, not only at the last one.
dec_ref_early(h, b) ==
    LET t == Touch(h, b) IN
    IF b = 0 THEN t
    ELSE LET _ptr == t.impl[b]
             t1   == pre_dec_use(t, b)
         IN  dec_wref(IF t1.use[b] = 0 /\ _ptr # 0
                      THEN run_deleter(t1, _ptr) ELSE t1, b)

\* void dec_ref() noexcept: --_use_count, at 0 the deleter and dec_wref().
dec_ref(h, b) ==
    LET t == Touch(h, b) IN
    IF b = 0 THEN t
    ELSE LET _ptr == t.impl[b]
             t1   == pre_dec_use(t, b)
         IN  IF t1.use[b] = 0
             THEN dec_wref(IF _ptr # 0 THEN run_deleter(t1, _ptr) ELSE t1, b)
             ELSE t1

\* long use_count() const: return _use_count;
cb_use_count(h, b) == h.use[b]

\* bool expired() const: return _use_count == 0;
cb_expired(h, b) == h.use[b] = 0

\* long weak_use_count() const
cb_weak_use_count(h, b) ==
    h.weak[b] - (IF h.use[b] > 0 THEN 1 ELSE 0)

(***************************************************************************)
(* sp::weak_ptr                                                            *)
(***************************************************************************)
\* Mutant of weak_ctor: the strong counter is incremented.
weak_ctor_strong(h, src) ==
    [h |-> IF src.cb # 0 THEN inc_ref(h, src.cb) ELSE h, r |-> src]

\* weak_ptr(shared_ptr<U> const&), weak_ptr(weak_ptr const&): copy the pair
\* and inc_wref() when there is a block.
weak_ctor(h, src) ==
    [h |-> IF src.cb # 0 THEN inc_wref(h, src.cb) ELSE h, r |-> src]

\* ~weak_ptr() { if (_control_block) _control_block->dec_wref(); }
weak_dtor(h, w) == IF w.cb # 0 THEN dec_wref(h, w.cb) ELSE h

\* long use_count(): (_control_block) ? _control_block->use_count() : 0
wp_use_count(h, w) == IF w.cb # 0 THEN cb_use_count(h, w.cb) ELSE 0

\* bool expired(): (_control_block) ? _control_block->expired() : false
wp_expired(h, w) == IF w.cb # 0 THEN cb_expired(h, w.cb) ELSE FALSE

(***************************************************************************)
(* sp::shared_ptr                                                          *)
(***************************************************************************)
\* shared_ptr(const shared_ptr&) and the aliasing constructor: the pair
\* (p, sp._control_block), and inc_ref() when there is a block.
shared_ctor(h, src, p) ==
    [h |-> IF src.cb # 0 THEN inc_ref(h, src.cb) ELSE h,
     r |-> [ptr |-> p, cb |-> src.cb]]

\* Mutant of shared_from_weak: no expiry check.
shared_from_weak_nothrow(h, w) == [h |-> inc_ref(h, w.cb), r |-> w]

\* explicit shared_ptr(const weak_ptr<U>& wp): throws bad_weak_ptr when
\* wp.expired(), else _control_block->inc_ref() (no null check).
shared_from_weak(h, w) ==
    IF wp_expired(h, w)
    THEN [h |-> [h EXCEPT !.status = "bad_weak_ptr"], r |-> Empty]
    ELSE [h |-> inc_ref(h, w.cb), r |-> w]

\* Mutant of shared_dtor: the deleter is given the stored pointer of the
\* dying shared_ptr instead of the pointer the block was created for.
shared_dtor_stored(h, s) ==
    IF s.cb # 0 THEN dec_ref([h EXCEPT !.impl[s.cb] = s.ptr], s.cb) ELSE h

\* ~shared_ptr() { if (_control_block) _control_block->dec_ref(); }
shared_dtor(h, s) == IF s.cb # 0 THEN dec_ref(h, s.cb) ELSE h

\* Mutant of swap: the control blocks stay where they were.
swap_ptr_only(a, b) ==
    [a |-> [ptr |-> b.ptr, cb |-> a.cb], b |-> [ptr |-> a.ptr, cb |-> b.cb]]

\* void swap(shared_ptr& sp) / swap(weak_ptr& wp), on *this = a and b:
\*   swap(_ptr, sp._ptr); swap(_control_block, sp._control_block);
swap(a, b) ==
    [a |-> [ptr |-> b.ptr, cb |-> b.cb], b |-> [ptr |-> a.ptr, cb |-> a.cb]]

\* Mutant of copy_assign: the old pair is overwritten, not released.
copy_assign_overwrites(h, a, b) == shared_ctor(h, b, b.ptr)

\* operator=(const shared_ptr& sp) on *this = a with sp = b:
\*   shared_ptr{ sp }.swap(*this); the temporary is built from b, takes
\*   the pair of a in the swap and is destroyed with it.
copy_assign(h, a, b) ==
    LET c == shared_ctor(h, b, b.ptr) IN
    [h |-> shared_dtor(c.h, a), r |-> c.r]

\* long use_count(): (_control_block) ? _control_block->use_count() : 0
sp_use_count(h, s) == IF s.cb # 0 THEN cb_use_count(h, s.cb) ELSE 0

\* Mutant of lock: promotion without the expiry check.
lock_unchecked(h, w) == [h |-> inc_ref(h, w.cb), r |-> w]

\* shared_ptr<T> lock() const noexcept:
\*   (expired()) ? shared_ptr<T>{} : shared_ptr<T>{ *this }
\* An exception leaving the noexcept function is std::terminate.
lock(h, w) ==
    IF wp_expired(h, w) THEN [h |-> h, r |-> Empty]
    ELSE LET c == shared_from_weak(h, w) IN
         IF c.h.status = "bad_weak_ptr"
         THEN [h |-> [c.h EXCEPT !.status = "terminate"], r |-> Empty]
         ELSE c

\* Mutant of owner_before: the stored pointers are compared.
owner_before_ptr(a, b) == a.ptr < b.ptr

\* bool owner_before(other) const:
\*   std::less<control_block_base*>()(_control_block, other._control_block)
\* The number of a block stands for its address, 0 for the null pointer.
owner_before(a, b) == a.cb < b.cb

\* bool operator==(sp1, sp2) { return sp1.get() == sp2.get(); }
sp_equal(a, b) == a.ptr = b.ptr

\* Mutant of pointer_cast: the result takes the pair without inc_ref().
pointer_cast_unowned(h, s, p) == [h |-> h, r |-> [ptr |-> p, cb |-> s.cb]]

\* static_pointer_cast, const_pointer_cast, reinterpret_pointer_cast:
\*   return _Sp(sp, cast<element_type*>(sp.get()));
\* p is the converted pointer.
pointer_cast(h, s, p) == shared_ctor(h, s, p)

\* Mutant of dynamic_pointer_cast: the aliasing constructor is used whether
\* the dynamic_cast succeeds or not.
dynamic_pointer_cast_always(h, s, p) == shared_ctor(h, s, p)

\* dynamic_pointer_cast:
\*   if (auto* _p = dynamic_cast<element_type*>(sp.get())) return _Sp(sp, _p);
\*   return _Sp();
\* p is what dynamic_cast gave: null when the conversion fails.
dynamic_pointer_cast(h, s, p) ==
    IF p # 0 THEN shared_ctor(h, s, p) ELSE [h |-> h, r |-> Empty]

(***************************************************************************)
(* The end of a handler.  A call through a null pointer to a virtual       *)
(* member is undefined: the process dies on the load of the vtable         *)
(* ("segv"), or the call is lost and the handler returns ("ub_returned").  *)
(***************************************************************************)
Outcomes(h) ==
    IF h.status = "null_call" THEN {"segv", "ub_returned"} ELSE {h.status}

Commit(h) ==
    /\ _use_count' = h.use
    /\ _weak_use_count' = h.weak
    /\ _impl' = h.impl
    /\ cb_mem' = h.mem
    /\ deleted' = h.del
    /\ status' \in Outcomes(h)

\* The block `new` returns: the lowest number not handed out yet, neither
\* for a control block nor for an object a unique_ptr was given.
Unallocated ==
    {b \in Blocks : /\ cb_mem[b] = "unalloc"
                    /\ up_deleted[b] = 0 /\ ~released[b]
                    /\ \A u \in UCells : up[u].ptr # b}
NextBlock == CHOOSE b \in Unallocated : \A c \in Unallocated : b <= c

\* A minimal ::shared_ptr with all three members null: what the move
\* constructor leaves behind and what `shared_ptr tmp{}` makes.
MEmpty == [ptr |-> 0, rc |-> 0, del |-> 0]

\* A null D*: what get_deleter<D>(sp) returns when there is no deleter of
\* type D.
NoDeleter == [cb |-> 0, type |-> "none"]

Init ==
    /\ _use_count = [b \in Blocks |-> 0]
    /\ _weak_use_count = [b \in Blocks |-> 0]
    /\ _impl = [b \in Blocks |-> 0]
    /\ cb_mem = [b \in Blocks |-> "unalloc"]
    /\ deleted = [p \in Ptrs |-> 0]
    /\ sp = [i \in Cells |-> Empty]
    /\ wp = [i \in Cells |-> Empty]
    /\ weak_this = [o \in Blocks |-> Empty]
    /\ status = "ok"
    /\ tsp = [t \in Threads |-> Empty]
    /\ twp = [t \in Threads |-> Empty]
    /\ tres = [t \in Threads |-> Empty]
    /\ pc = [t \in Threads |-> "idle"]
    /\ tcb = [t \in Threads |-> 0]
    /\ _deleter = [b \in Blocks |-> "default_delete"]
    /\ up = [u \in UCells |-> [ptr |-> 0, del |-> "default_delete"]]
    /\ up_deleted = [p \in Ptrs |-> 0]
    /\ got = NoDeleter
    /\ released = [p \in Ptrs |-> FALSE]
    /\ msp = [i \in Cells |-> MEmpty]
    /\ _ref_count = [b \in Blocks |-> 0]
    /\ rc_mem = [b \in Blocks |-> "unalloc"]
    /\ del_mem = [b \in Blocks |-> "unalloc"]
    /\ m_deleted = [p \in Ptrs |-> 0]

\* A constructor builds a pointer in a cell that holds none; the other
\* handlers act on cells of their own type.
Free(i) == sp[i] = Empty /\ wp[i] = Empty
IsSP(i) == wp[i] = Empty
IsWP(i) == sp[i] = Empty

(***************************************************************************)
(* Handlers of sp::shared_ptr, one at a time.                              *)
(***************************************************************************)
\* explicit shared_ptr(U* p) on a freshly allocated object.
Wrap(i) ==
    /\ Running /\ Free(i) /\ Unallocated # {}
    /\ LET b == NextBlock IN
       /\ Commit(new_control_block(Heap, b, b))
       /\ sp' = [sp EXCEPT ![i] = [ptr |-> b, cb |-> b]]
    /\ UNCHANGED <<mini, wp, weak_this, thr, ext>>

\* shared_ptr(const shared_ptr& sp)
Copy(i, j) ==
    /\ Running /\ i # j /\ Free(i) /\ IsSP(j)
    /\ LET c == shared_ctor(Heap, sp[j], sp[j].ptr) IN
       /\ Commit(c.h)
       /\ sp' = [sp EXCEPT ![i] = c.r]
    /\ UNCHANGED <<mini, wp, weak_this, thr, ext>>

\* shared_ptr(const shared_ptr<U>& sp, T* p) from a source that owns.
Alias(i, j, p) ==
    /\ Running /\ i # j /\ Free(i) /\ sp[j].cb # 0
    /\ LET c == shared_ctor(Heap, sp[j], p) IN
       /\ Commit(c.h)
       /\ sp' = [sp EXCEPT ![i] = c.r]
    /\ UNCHANGED <<mini, wp, weak_this, thr, ext>>

\* Mutant of Move: the source keeps its pointer and its control block.
MoveKeepsSource(i, j) ==
    /\ Running /\ i # j /\ Free(i) /\ sp[j] # Empty
    /\ Commit(Heap)
    /\ sp' = [sp EXCEPT ![i] = sp[j]]
    /\ UNCHANGED <<mini, wp, weak_this, thr, ext>>

\* shared_ptr(shared_ptr&& sp)
Move(i, j) ==
    /\ Running /\ i # j /\ Free(i) /\ sp[j] # Empty
    /\ Commit(Heap)
    /\ sp' = [sp EXCEPT ![i] = sp[j], ![j] = Empty]
    /\ UNCHANGED <<mini, wp, weak_this, thr, ext>>

\* ~shared_ptr()
Destroy(i) ==
    /\ Running /\ sp[i] # Empty
    /\ Commit(shared_dtor(Heap, sp[i]))
    /\ sp' = [sp EXCEPT ![i] = Empty]
    /\ UNCHANGED <<mini, wp, weak_this, thr, ext>>

\* shared_ptr& operator=(const shared_ptr& sp):
\*   shared_ptr{ sp }.swap(*this); the temporary dies holding the old pair.
CopyAssign(i, j) ==
    /\ Running /\ IsSP(i) /\ IsSP(j)
    /\ LET c == copy_assign(Heap, sp[i], sp[j]) IN
       /\ Commit(c.h)
       /\ sp' = [sp EXCEPT ![i] = c.r]
    /\ UNCHANGED <<mini, wp, weak_this, thr, ext>>

\* shared_ptr& operator=(shared_ptr&& sp):
\*   shared_ptr{ std::move(sp) }.swap(*this);
MoveAssign(i, j) ==
    /\ Running /\ IsSP(i) /\ IsSP(j)
    /\ LET tmp     == sp[j]
           emptied == [sp EXCEPT ![j] = Empty]
       IN  /\ Commit(shared_dtor(Heap, emptied[i]))
           /\ sp' = [emptied EXCEPT ![i] = tmp]
    /\ UNCHANGED <<mini, wp, weak_this, thr, ext>>

\* Mutant of Reset: the pair is cleared and the old block is not released.
ResetLeaks(i) ==
    /\ Running /\ sp[i] # Empty
    /\ Commit(Heap)
    /\ sp' = [sp EXCEPT ![i] = Empty]
    /\ UNCHANGED <<mini, wp, weak_this, thr, ext>>

\* void reset() noexcept { shared_ptr{}.swap(*this); }
Reset(i) ==
    /\ Running /\ sp[i] # Empty
    /\ Commit(shared_dtor(Heap, sp[i]))
    /\ sp' = [sp EXCEPT ![i] = Empty]
    /\ UNCHANGED <<mini, wp, weak_this, thr, ext>>

\* void reset(U* p) { shared_ptr{ p }.swap(*this); } on a fresh object.
ResetPtr(i) ==
    /\ Running /\ sp[i] # Empty /\ Unallocated # {}
    /\ LET b == NextBlock IN
       /\ Commit(shared_dtor(new_control_block(Heap, b, b), sp[i]))
       /\ sp' = [sp EXCEPT ![i] = [ptr |-> b, cb |-> b]]
    /\ UNCHANGED <<mini, wp, weak_this, thr, ext>>

\* void swap(shared_ptr& sp) noexcept
Swap(i, j) ==
    /\ Running /\ i # j /\ IsSP(i) /\ IsSP(j) /\ sp[i] # sp[j]
    /\ Commit(Heap)
    /\ LET s == swap(sp[i], sp[j]) IN
       sp' = [sp EXCEPT ![i] = s.a, ![j] = s.b]
    /\ UNCHANGED <<mini, wp, weak_this, thr, ext>>

\* explicit shared_ptr(const weak_ptr<U>& wp): a throwing constructor
\* leaves no object behind.
FromWeak(i, w) ==
    /\ Running /\ Free(i) /\ IsWP(w)
    /\ LET c == shared_from_weak(Heap, wp[w]) IN
       /\ Commit(c.h)
       /\ sp' = IF c.h.status = "bad_weak_ptr" THEN sp
                ELSE [sp EXCEPT ![i] = c.r]
    /\ UNCHANGED <<mini, wp, weak_this, thr, ext>>

\* shared_ptr<T> s = wp.lock();
Lock(i, w) ==
    /\ Running /\ Free(i) /\ IsWP(w)
    /\ LET c == lock(Heap, wp[w]) IN
       /\ Commit(c.h)
       /\ sp' = [sp EXCEPT ![i] = c.r]
    /\ UNCHANGED <<mini, wp, weak_this, thr, ext>>

\* shared_ptr<T> shared_from_this() { return shared_ptr<T>(weak_this); }
\* called on object o, which is alive: never wrapped, or wrapped and not
\* destroyed yet.
Alive(o) == deleted[o] = 0
SharedFromThis(i, o) ==
    /\ Running /\ Free(i) /\ Alive(o)
    /\ LET c == shared_from_weak(Heap, weak_this[o]) IN
       /\ Commit(c.h)
       /\ sp' = IF c.h.status = "bad_weak_ptr" THEN sp
                ELSE [sp EXCEPT ![i] = c.r]
    /\ UNCHANGED <<mini, wp, weak_this, thr, ext>>

\* What a static_cast of the stored pointer of s to a related type can
\* give: null for null, else the address of the object of s's block or of a
\* subobject of it.
StaticPtrs(s) ==
    IF s.ptr = 0 \/ s.cb = 0 THEN {0} ELSE {_impl[s.cb], Member} \ {0}
\* What a dynamic_cast can give: the same, or null when the object is not
\* of the requested type.
DynamicPtrs(s) == StaticPtrs(s) \cup {0}

\* shared_ptr<T> r = static_pointer_cast<T>(sp);
StaticCast(i, j, p) ==
    /\ Running /\ i # j /\ Free(i) /\ IsSP(j) /\ p \in StaticPtrs(sp[j])
    /\ LET c == pointer_cast(Heap, sp[j], p) IN
       /\ Commit(c.h)
       /\ sp' = [sp EXCEPT ![i] = c.r]
    /\ UNCHANGED <<mini, wp, weak_this, thr, ext>>

\* shared_ptr<T> r = const_pointer_cast<T>(sp); or reinterpret_pointer_cast:
\* the address is kept.
ConstCast(i, j) ==
    /\ Running /\ i # j /\ Free(i) /\ IsSP(j)
    /\ LET c == pointer_cast(Heap, sp[j], sp[j].ptr) IN
       /\ Commit(c.h)
       /\ sp' = [sp EXCEPT ![i] = c.r]
    /\ UNCHANGED <<mini, wp, weak_this, thr, ext>>

\* shared_ptr<T> r = dynamic_pointer_cast<T>(sp);
DynamicCast(i, j, p) ==
    /\ Running /\ i # j /\ Free(i) /\ IsSP(j) /\ p \in DynamicPtrs(sp[j])
    /\ LET c == dynamic_pointer_cast(Heap, sp[j], p) IN
       /\ Commit(c.h)
       /\ sp' = [sp EXCEPT ![i] = c.r]
    /\ UNCHANGED <<mini, wp, weak_this, thr, ext>>

(***************************************************************************)
(* Handlers of sp::weak_ptr, one at a time.                                *)
(***************************************************************************)
\* weak_ptr(shared_ptr<U> const& sp)
WeakFromShared(w, j) ==
    /\ Running /\ w # j /\ Free(w) /\ sp[j] # Empty
    /\ LET c == weak_ctor(Heap, sp[j]) IN
       /\ Commit(c.h)
       /\ wp' = [wp EXCEPT ![w] = c.r]
    /\ UNCHANGED <<mini, sp, weak_this, thr, ext>>

\* weak_ptr(weak_ptr const& wp)
WeakCopy(w, v) ==
    /\ Running /\ w # v /\ Free(w) /\ wp[v] # Empty
    /\ LET c == weak_ctor(Heap, wp[v]) IN
       /\ Commit(c.h)
       /\ wp' = [wp EXCEPT ![w] = c.r]
    /\ UNCHANGED <<mini, sp, weak_this, thr, ext>>

\* weak_ptr& operator=(const weak_ptr& wp): weak_ptr{ wp }.swap(*this);
WeakAssign(w, v) ==
    /\ Running /\ IsWP(w) /\ IsWP(v)
    /\ LET c == weak_ctor(Heap, wp[v]) IN
       /\ Commit(weak_dtor(c.h, wp[w]))
       /\ wp' = [wp EXCEPT ![w] = c.r]
    /\ UNCHANGED <<mini, sp, weak_this, thr, ext>>

\* weak_ptr& operator=(const shared_ptr<U>& sp): weak_ptr{ sp }.swap(*this);
WeakAssignShared(w, j) ==
    /\ Running /\ w # j /\ IsWP(w) /\ IsSP(j)
    /\ LET c == weak_ctor(Heap, sp[j]) IN
       /\ Commit(weak_dtor(c.h, wp[w]))
       /\ wp' = [wp EXCEPT ![w] = c.r]
    /\ UNCHANGED <<mini, sp, weak_this, thr, ext>>

\* void reset() noexcept { weak_ptr{}.swap(*this); }
WeakReset(w) ==
    /\ Running /\ wp[w] # Empty
    /\ Commit(weak_dtor(Heap, wp[w]))
    /\ wp' = [wp EXCEPT ![w] = Empty]
    /\ UNCHANGED <<mini, sp, weak_this, thr, ext>>

\* ~weak_ptr()
WeakDestroy(w) ==
    /\ Running /\ wp[w] # Empty
    /\ Commit(weak_dtor(Heap, wp[w]))
    /\ wp' = [wp EXCEPT ![w] = Empty]
    /\ UNCHANGED <<mini, sp, weak_this, thr, ext>>

\* void swap(weak_ptr& wp) noexcept
WeakSwap(w, v) ==
    /\ Running /\ w # v /\ IsWP(w) /\ IsWP(v) /\ wp[w] # wp[v]
    /\ Commit(Heap)
    /\ LET s == swap(wp[w], wp[v]) IN
       wp' = [wp EXCEPT ![w] = s.a, ![v] = s.b]
    /\ UNCHANGED <<mini, sp, weak_this, thr, ext>>

Next ==
    \/ \E i \in Cells : Wrap(i)
    \/ \E i \in Cells : Destroy(i)
    \/ \E i \in Cells : Reset(i)
    \/ \E i \in Cells : ResetPtr(i)
    \/ \E i, j \in Cells : Copy(i, j)
    \/ \E i, j \in Cells : Move(i, j)
    \/ \E i, j \in Cells : CopyAssign(i, j)
    \/ \E i, j \in Cells : MoveAssign(i, j)
    \/ \E i, j \in Cells : Swap(i, j)
    \/ \E i, j \in Cells, p \in AliasPtrs : Alias(i, j, p)
    \/ \E i, j \in Cells, p \in Ptrs : StaticCast(i, j, p)
    \/ \E i, j \in Cells : ConstCast(i, j)
    \/ \E i, j \in Cells, p \in Ptrs : DynamicCast(i, j, p)
    \/ \E i, w \in Cells : FromWeak(i, w)
    \/ \E i, w \in Cells : Lock(i, w)
    \/ \E i \in Cells, o \in Blocks : SharedFromThis(i, o)
    \/ \E w, j \in Cells : WeakFromShared(w, j)
    \/ \E w, j \in Cells : WeakAssignShared(w, j)
    \/ \E w, v \in Cells : WeakCopy(w, v)
    \/ \E w, v \in Cells : WeakAssign(w, v)
    \/ \E w, v \in Cells : WeakSwap(w, v)
    \/ \E w \in Cells : WeakReset(w)
    \/ \E w \in Cells : WeakDestroy(w)

Spec == Init /\ [][Next]_vars

(***************************************************************************)
(* The concurrent program.  The main thread wraps object 1 and hands every *)
(* thread a copy of the shared_ptr; from then on each thread works on its  *)
(* own three variables only.  A step is one access to an atomic counter,   *)
(* one run of the deleter or one `delete this`.                            *)
(***************************************************************************)
InitConc ==
    /\ _use_count = [b \in Blocks |-> IF b = 1 THEN NumThreads ELSE 0]
    /\ _weak_use_count = [b \in Blocks |-> IF b = 1 THEN 1 ELSE 0]
    /\ _impl = [b \in Blocks |-> IF b = 1 THEN 1 ELSE 0]
    /\ cb_mem = [b \in Blocks |-> IF b = 1 THEN "live" ELSE "unalloc"]
    /\ deleted = [p \in Ptrs |-> 0]
    /\ sp = [i \in Cells |-> Empty]
    /\ wp = [i \in Cells |-> Empty]
    /\ weak_this = [o \in Blocks |-> Empty]
    /\ status = "ok"
    /\ tsp = [t \in Threads |-> [ptr |-> 1, cb |-> 1]]
    /\ twp = [t \in Threads |-> Empty]
    /\ tres = [t \in Threads |-> Empty]
    /\ pc = [t \in Threads |-> "idle"]
    /\ tcb = [t \in Threads |-> 0]
    /\ _deleter = [b \in Blocks |-> "default_delete"]
    /\ up = [u \in UCells |-> [ptr |-> 0, del |-> "default_delete"]]
    /\ up_deleted = [p \in Ptrs |-> 0]
    /\ got = NoDeleter
    /\ released = [p \in Ptrs |-> FALSE]
    /\ msp = [i \in Cells |-> MEmpty]
    /\ _ref_count = [b \in Blocks |-> 0]
    /\ rc_mem = [b \in Blocks |-> "unalloc"]
    /\ del_mem = [b \in Blocks |-> "unalloc"]
    /\ m_deleted = [p \in Ptrs |-> 0]

Idle(t) == Running /\ pc[t] = "idle"
At(t, l) == Running /\ pc[t] = l

\* shared_ptr(const shared_ptr& sp): tres = copy of tsp; one inc_ref().
TCopy(t) ==
    /\ Idle(t) /\ tres[t] = Empty /\ tsp[t].cb # 0
    /\ LET c == shared_ctor(Heap, tsp[t], tsp[t].ptr) IN
       /\ Commit(c.h)
       /\ tres' = [tres EXCEPT ![t] = c.r]
    /\ UNCHANGED <<mini, ext, sp, wp, weak_this, tsp, twp, pc, tcb>>

\* weak_ptr(shared_ptr<U> const& sp): twp = weak_ptr of tsp; one inc_wref().
TWeak(t) ==
    /\ Idle(t) /\ twp[t] = Empty /\ tsp[t].cb # 0
    /\ LET c == weak_ctor(Heap, tsp[t]) IN
       /\ Commit(c.h)
       /\ twp' = [twp EXCEPT ![t] = c.r]
    /\ UNCHANGED <<mini, ext, sp, wp, weak_this, tsp, tres, pc, tcb>>

\* ~shared_ptr() of tsp: dec_ref() up to the test of --_use_count.
TDropShared(t) ==
    /\ Idle(t) /\ tsp[t].cb # 0
    /\ LET b == tsp[t].cb
           h == pre_dec_use(Touch(Heap, b), b)
       IN  /\ Commit(h)
           /\ pc' = [pc EXCEPT ![t] = IF h.use[b] = 0 THEN "deleter" ELSE "idle"]
           /\ tcb' = [tcb EXCEPT ![t] = b]
    /\ tsp' = [tsp EXCEPT ![t] = Empty]
    /\ UNCHANGED <<mini, ext, sp, wp, weak_this, twp, tres>>

\* ~shared_ptr() of tres: dec_ref() up to the test of --_use_count.
TDropResult(t) ==
    /\ Idle(t) /\ tres[t].cb # 0
    /\ LET b == tres[t].cb
           h == pre_dec_use(Touch(Heap, b), b)
       IN  /\ Commit(h)
           /\ pc' = [pc EXCEPT ![t] = IF h.use[b] = 0 THEN "deleter" ELSE "idle"]
           /\ tcb' = [tcb EXCEPT ![t] = b]
    /\ tres' = [tres EXCEPT ![t] = Empty]
    /\ UNCHANGED <<mini, ext, sp, wp, weak_this, tsp, twp>>

\* dec_ref(): if (_ptr) _deleter(_ptr);
TDeleter(t) ==
    /\ At(t, "deleter")
    /\ LET b == tcb[t]
           h == Touch(Heap, b)
       IN  Commit(IF h.impl[b] # 0 THEN run_deleter(h, h.impl[b]) ELSE h)
    /\ pc' = [pc EXCEPT ![t] = "dec_wref"]
    /\ UNCHANGED <<mini, ext, sp, wp, weak_this, tsp, twp, tres, tcb>>

\* Mutant of TDecWref: the result of the decrement is not tested.
TDecWref_always(t) ==
    /\ At(t, "dec_wref")
    /\ Commit(pre_dec_weak(Touch(Heap, tcb[t]), tcb[t]))
    /\ pc' = [pc EXCEPT ![t] = "delete_this"]
    /\ UNCHANGED <<mini, ext, sp, wp, weak_this, tsp, twp, tres, tcb>>

\* dec_ref(): dec_wref(), up to the test of --_weak_use_count.
TDecWref(t) ==
    /\ At(t, "dec_wref")
    /\ LET b == tcb[t]
           h == pre_dec_weak(Touch(Heap, b), b)
       IN  /\ Commit(h)
           /\ pc' = [pc EXCEPT ![t] =
                        IF h.weak[b] = 0 THEN "delete_this" ELSE "idle"]
    /\ UNCHANGED <<mini, ext, sp, wp, weak_this, tsp, twp, tres, tcb>>

\* ~weak_ptr() of twp: dec_wref() up to the test of --_weak_use_count.
TDropWeak(t) ==
    /\ Idle(t) /\ twp[t].cb # 0
    /\ LET b == twp[t].cb
           h == pre_dec_weak(Touch(Heap, b), b)
       IN  /\ Commit(h)
           /\ pc' = [pc EXCEPT ![t] =
                        IF h.weak[b] = 0 THEN "delete_this" ELSE "idle"]
           /\ tcb' = [tcb EXCEPT ![t] = b]
    /\ twp' = [twp EXCEPT ![t] = Empty]
    /\ UNCHANGED <<mini, ext, sp, wp, weak_this, tsp, tres>>

\* dec_wref(): delete this;
TDeleteThis(t) ==
    /\ At(t, "delete_this")
    /\ Commit(delete_this(Heap, tcb[t]))
    /\ pc' = [pc EXCEPT ![t] = "idle"]
    /\ UNCHANGED <<mini, ext, sp, wp, weak_this, tsp, twp, tres, tcb>>

NextConc ==
    \/ \E t \in Threads : TCopy(t)
    \/ \E t \in Threads : TWeak(t)
    \/ \E t \in Threads : TDropShared(t)
    \/ \E t \in Threads : TDropResult(t)
    \/ \E t \in Threads : TDeleter(t)
    \/ \E t \in Threads : TDecWref(t)
    \/ \E t \in Threads : TDropWeak(t)
    \/ \E t \in Threads : TDeleteThis(t)

SpecConc == InitConc /\ [][NextConc]_vars

(***************************************************************************)
(* The concurrent program with promotion: tres = twp.lock().               *)
(***************************************************************************)
\* lock(): the expired() of the conditional expression.
TLockExpired(t) ==
    /\ Idle(t) /\ tres[t] = Empty /\ twp[t].cb # 0
    /\ Commit(Touch(Heap, twp[t].cb))
    /\ pc' = [pc EXCEPT ![t] =
                 IF wp_expired(Heap, twp[t]) THEN "lock_empty" ELSE "lock_ctor"]
    /\ UNCHANGED <<mini, ext, sp, wp, weak_this, tsp, twp, tres, tcb>>

\* lock(): return shared_ptr<T>{};
TLockEmpty(t) ==
    /\ At(t, "lock_empty")
    /\ Commit(Heap)
    /\ pc' = [pc EXCEPT ![t] = "idle"]
    /\ UNCHANGED <<mini, ext, sp, wp, weak_this, tsp, twp, tres, tcb>>

\* shared_ptr(const weak_ptr<U>& wp): if (wp.expired()) throw bad_weak_ptr{};
\* the exception leaves the noexcept lock(): std::terminate.
TLockCtorExpired(t) ==
    /\ At(t, "lock_ctor")
    /\ LET h == Touch(Heap, twp[t].cb) IN
       Commit(IF wp_expired(Heap, twp[t]) /\ h.status = "ok"
              THEN [h EXCEPT !.status = "terminate"] ELSE h)
    /\ pc' = [pc EXCEPT ![t] = "lock_inc_ref"]
    /\ UNCHANGED <<mini, ext, sp, wp, weak_this, tsp, twp, tres, tcb>>

\* shared_ptr(const weak_ptr<U>& wp): else _control_block->inc_ref();
TLockIncRef(t) ==
    /\ At(t, "lock_inc_ref")
    /\ Commit(inc_ref(Heap, twp[t].cb))
    /\ tres' = [tres EXCEPT ![t] = twp[t]]
    /\ pc' = [pc EXCEPT ![t] = "locked"]
    /\ UNCHANGED <<mini, ext, sp, wp, weak_this, tsp, twp, tcb>>

\* lock() has returned the shared_ptr it built.
TLockReturn(t) ==
    /\ At(t, "locked")
    /\ Commit(Heap)
    /\ pc' = [pc EXCEPT ![t] = "idle"]
    /\ UNCHANGED <<mini, ext, sp, wp, weak_this, tsp, twp, tres, tcb>>

NextLock ==
    \/ NextConc
    \/ \E t \in Threads : TLockExpired(t)
    \/ \E t \in Threads : TLockEmpty(t)
    \/ \E t \in Threads : TLockCtorExpired(t)
    \/ \E t \in Threads : TLockIncRef(t)
    \/ \E t \in Threads : TLockReturn(t)

SpecLock == InitConc /\ [][NextLock]_vars

(***************************************************************************)
(* The program with deleters: sp::unique_ptr, the shared_ptr constructors  *)
(* that bind a deleter, and get_deleter.  The control block made for       *)
(* object p is block p; the block made for nullptr takes the number of an  *)
(* object that does not exist yet.                                         *)
(***************************************************************************)
\* A unique_ptr that owns nothing.
NoUnique == [ptr |-> 0, del |-> "default_delete"]

\* Mutant of unique_release: the stored pointer is not cleared.
unique_release_keeps(u) == [r |-> u.ptr, u |-> u]

\* T* release() noexcept: cp = _ptr; _ptr = nullptr; return cp;
unique_release(u) == [r |-> u.ptr, u |-> [u EXCEPT !.ptr = 0]]

\* deleter_type& get_deleter() noexcept
unique_get_deleter(u) == u.del

\* explicit unique_ptr(T* p) / unique_ptr(T* p, d) on a fresh object.
UWrap(u, d) ==
    /\ Running /\ up[u] = NoUnique /\ Unallocated # {}
    /\ Commit(Heap)
    /\ up' = [up EXCEPT ![u] = [ptr |-> NextBlock, del |-> d]]
    /\ UNCHANGED <<mini, sp, wp, weak_this, thr, _deleter, up_deleted, got, released>>

\* ~unique_ptr(): if (_ptr) _deleter(_ptr);
UDestroy(u) ==
    /\ Running /\ up[u] # NoUnique
    /\ Commit(Heap)
    /\ up_deleted' = IF up[u].ptr # 0
                     THEN [up_deleted EXCEPT ![up[u].ptr] = Cap2(@ + 1)]
                     ELSE up_deleted
    /\ up' = [up EXCEPT ![u] = NoUnique]
    /\ UNCHANGED <<mini, sp, wp, weak_this, thr, _deleter, got, released>>

\* shared_ptr(unique_ptr<U, D>&& up)
\*   : shared_ptr{ up.release(), up.get_deleter() }
\* which is shared_ptr(U* p, D d): new control_block<U, D>{p, std::move(d)}.
FromUnique(i, u) ==
    /\ Running /\ Free(i)
    /\ LET rel == unique_release(up[u])
           p   == rel.r
           d   == unique_get_deleter(rel.u)
       IN  /\ p = 0 => Unallocated # {}
           /\ LET b == IF p # 0 THEN p ELSE NextBlock IN
              /\ Commit(new_control_block(Heap, b, p))
              /\ _deleter' = [_deleter EXCEPT ![b] = d]
              /\ sp' = [sp EXCEPT ![i] = [ptr |-> p, cb |-> b]]
           /\ up' = [up EXCEPT ![u] = rel.u]
    /\ UNCHANGED <<mini, wp, weak_this, thr, up_deleted, got, released>>

\* shared_ptr(U* p, D d) on a fresh object; with D = default_delete<U> it
\* is shared_ptr(U* p).
WrapDeleter(i, d) ==
    /\ Running /\ Free(i) /\ Unallocated # {}
    /\ LET b == NextBlock IN
       /\ Commit(new_control_block(Heap, b, b))
       /\ _deleter' = [_deleter EXCEPT ![b] = d]
       /\ sp' = [sp EXCEPT ![i] = [ptr |-> b, cb |-> b]]
    /\ UNCHANGED <<mini, wp, weak_this, thr, up, up_deleted, got, released>>

\* void reset(U* p, D d) { shared_ptr{ p, d }.swap(*this); } on a fresh
\* object.
ResetPtrDeleter(i, d) ==
    /\ Running /\ sp[i] # Empty /\ Unallocated # {}
    /\ LET b == NextBlock IN
       /\ Commit(shared_dtor(new_control_block(Heap, b, b), sp[i]))
       /\ _deleter' = [_deleter EXCEPT ![b] = d]
       /\ sp' = [sp EXCEPT ![i] = [ptr |-> b, cb |-> b]]
    /\ UNCHANGED <<mini, wp, weak_this, thr, up, up_deleted, got, released>>

\* D* get_deleter(const shared_ptr<T>& sp):
\*   reinterpret_cast<D*>(sp._control_block->get_deleter())
\* the address of the block's deleter, taken for a D whatever its type.
get_deleter(h, s, D) ==
    [h |-> Touch(h, s.cb),
     r |-> IF s.cb = 0 THEN NoDeleter ELSE [cb |-> s.cb, type |-> D]]

\* D* d = sp::get_deleter<D>(sp[i]);
GetDeleter(i, D) ==
    /\ Running /\ IsSP(i)
    /\ LET c == get_deleter(Heap, sp[i], D) IN
       /\ Commit(c.h)
       /\ got' = c.r
    /\ UNCHANGED <<mini, sp, wp, weak_this, thr, _deleter, up, up_deleted,
                   released>>

NextDel ==
    \/ \E u \in UCells, d \in Deleters : UWrap(u, d)
    \/ \E u \in UCells : UDestroy(u)
    \/ \E i \in Cells, u \in UCells : FromUnique(i, u)
    \/ \E i \in Cells, d \in Deleters : WrapDeleter(i, d)
    \/ \E i \in Cells, d \in Deleters : ResetPtrDeleter(i, d)
    \/ \E i \in Cells : ResetPtr(i)
    \/ \E i, j \in Cells : Copy(i, j)
    \/ \E i \in Cells : Destroy(i)
    \/ \E i \in Cells : Reset(i)

SpecDel == Init /\ [][NextDel]_vars

\* The program with deleters and get_deleter.
NextGet ==
    \/ NextDel
    \/ \E i \in Cells, D \in Deleters : GetDeleter(i, D)

SpecGet == Init /\ [][NextGet]_vars

(***************************************************************************)
(* The program with shared_ptr(nullptr, d).                                *)
(***************************************************************************)
\* Mutant of WrapNull: the block is made for an object, as by
\* shared_ptr(U* p, D d).
WrapNullObject(i, d) == WrapDeleter(i, d)

\* shared_ptr(std::nullptr_t p, D d)
\*   : _ptr{ nullptr }, _control_block{ new control_block<T, D>{p, d} }
WrapNull(i, d) ==
    /\ Running /\ Free(i) /\ Unallocated # {}
    /\ LET b == NextBlock IN
       /\ Commit(new_control_block(Heap, b, 0))
       /\ _deleter' = [_deleter EXCEPT ![b] = d]
       /\ sp' = [sp EXCEPT ![i] = [ptr |-> 0, cb |-> b]]
    /\ UNCHANGED <<mini, wp, weak_this, thr, up, up_deleted, got, released>>

NextNull ==
    \/ \E i \in Cells, d \in Deleters : WrapNull(i, d)
    \/ \E i \in Cells : Wrap(i)
    \/ \E i, j \in Cells : Copy(i, j)
    \/ \E i, j \in Cells : Move(i, j)
    \/ \E i, j \in Cells : CopyAssign(i, j)
    \/ \E i \in Cells : Destroy(i)
    \/ \E i \in Cells : Reset(i)
    \/ \E w, j \in Cells : WeakFromShared(w, j)
    \/ \E w \in Cells : WeakDestroy(w)

SpecNull == Init /\ [][NextNull]_vars

(***************************************************************************)
(* Handlers of sp::unique_ptr, one at a time.                              *)
(***************************************************************************)
\* The unique_ptr variables and the record of the deleter calls, as one
\* value.
UHeap == [up |-> up, del |-> up_deleted]

\* this->release(), on variable u.
release_of(s, u) == [s EXCEPT !.up[u] = unique_release(s.up[u]).u]

\* Mutant of unique_reset: the old object is not given to the deleter.
unique_reset_leaks(s, u, p) == [s EXCEPT !.up[u].ptr = p]

\* void reset(T* p) noexcept: if (_ptr) _deleter(_ptr); _ptr = p;
\* reset() is the same with p = pointer{}.
unique_reset(s, u, p) ==
    LET _ptr == s.up[u].ptr IN
    [s EXCEPT !.del = IF _ptr # 0 THEN [@ EXCEPT ![_ptr] = Cap2(@ + 1)]
                      ELSE @,
              !.up[u].ptr = p]

\* unique_ptr& operator=(unique_ptr&& up):
\*   reset(up.release()); _deleter = up.get_deleter();
\* on variable v, with variable u as the argument (u = v is v = move(v)).
unique_move_assign(s, v, u) ==
    LET cp == unique_release(s.up[u]).r
        s1 == unique_reset(release_of(s, u), v, cp)
    IN  [s1 EXCEPT !.up[v].del = unique_get_deleter(s1.up[u])]

UCommit(s) == up' = s.up /\ up_deleted' = s.del

\* The pointers reset(p) may be given: a fresh object, or one release()
\* handed to the caller.
Adoptable ==
    (IF Unallocated # {} THEN {NextBlock} ELSE {})
        \cup {p \in Blocks : released[p]}

\* unique_ptr(unique_ptr&& up)
\*   : _impl{ up.release(), std::forward<deleter_type>(up.get_deleter()) }
UMove(v, u) ==
    /\ Running /\ u # v /\ up[v] = NoUnique /\ up[u] # NoUnique
    /\ Commit(Heap)
    /\ LET rel == unique_release(up[u]) IN
       up' = [up EXCEPT ![u] = rel.u,
                        ![v] = [ptr |-> rel.r,
                                del |-> unique_get_deleter(rel.u)]]
    /\ UNCHANGED <<mini, sp, wp, weak_this, thr, _deleter, up_deleted, got, released>>

\* v = std::move(u), u = v included.
UMoveAssign(v, u) ==
    /\ Running
    /\ Commit(Heap)
    /\ UCommit(unique_move_assign(UHeap, v, u))
    /\ UNCHANGED <<mini, sp, wp, weak_this, thr, _deleter, got, released>>

\* T* p = u.release(); the caller keeps p.
URelease(u) ==
    /\ Running /\ up[u] # NoUnique
    /\ Commit(Heap)
    /\ LET rel == unique_release(up[u]) IN
       /\ up' = [up EXCEPT ![u] = rel.u]
       /\ released' = IF rel.r # 0 THEN [released EXCEPT ![rel.r] = TRUE]
                      ELSE released
    /\ UNCHANGED <<mini, sp, wp, weak_this, thr, _deleter, up_deleted, got>>

\* u.reset()
UReset(u) ==
    /\ Running /\ up[u] # NoUnique
    /\ Commit(Heap)
    /\ UCommit(unique_reset(UHeap, u, 0))
    /\ UNCHANGED <<mini, sp, wp, weak_this, thr, _deleter, got, released>>

\* u.reset(p), p a pointer no unique_ptr owns.
UResetPtr(u, p) ==
    /\ Running /\ p \in Adoptable
    /\ Commit(Heap)
    /\ UCommit(unique_reset(UHeap, u, p))
    /\ released' = [released EXCEPT ![p] = FALSE]
    /\ UNCHANGED <<mini, sp, wp, weak_this, thr, _deleter, got>>

\* void swap(unique_ptr& up) noexcept: swap(_impl, up._impl);
USwap(u, v) ==
    /\ Running
    /\ Commit(Heap)
    /\ up' = [up EXCEPT ![u] = up[v], ![v] = up[u]]
    /\ UNCHANGED <<mini, sp, wp, weak_this, thr, _deleter, up_deleted, got, released>>

NextUnique ==
    \/ \E u \in UCells, d \in Deleters : UWrap(u, d)
    \/ \E u \in UCells : UDestroy(u)
    \/ \E u, v \in UCells : UMove(v, u)
    \/ \E u, v \in UCells : UMoveAssign(v, u)
    \/ \E u \in UCells : URelease(u)
    \/ \E u \in UCells : UReset(u)
    \/ \E u \in UCells, p \in Blocks : UResetPtr(u, p)
    \/ \E u, v \in UCells : USwap(u, v)

SpecUnique == Init /\ [][NextUnique]_vars

(***************************************************************************)
(* The minimal ::shared_ptr at the head of the file: a stored pointer, a   *)
(* pointer to a std::atomic<long> counter and a pointer to a deleter       *)
(* object.  The counter and the deleter `new` makes for object p take the  *)
(* number p; those made for nullptr take the number of an object that      *)
(* does not exist yet.                                                     *)
(***************************************************************************)
core == <<_use_count, _weak_use_count, _impl, cb_mem, deleted>>

MHeap ==
    [rc |-> _ref_count, rcmem |-> rc_mem, delmem |-> del_mem,
     del |-> m_deleted, status |-> "ok"]

\* *_ref_count: a load or store through the counter pointer.
MTouch(h, c) ==
    IF h.status # "ok" THEN h
    ELSE IF c = 0 THEN [h EXCEPT !.status = "segv"]
    ELSE IF h.rcmem[c] # "live" THEN [h EXCEPT !.status = "use_after_free"]
    ELSE h

\* shared_ptr(T* p)
\*   : _ptr{ p }, _ref_count{ new std::atomic<long>{1} },
\*     _deleter{ new deleter<T>() }
\* with b the number of the two allocations.
min_wrap(h, b, p) ==
    [h |-> [h EXCEPT !.rc[b] = 1, !.rcmem[b] = "live", !.delmem[b] = "live"],
     r |-> [ptr |-> p, rc |-> b, del |-> b]]

\* shared_ptr(const shared_ptr& sp): the three members are copied, and
\* if (_ptr) ++(*_ref_count);
min_copy(h, s) ==
    [h |-> IF s.ptr # 0
           THEN LET t == MTouch(h, s.rc) IN
                IF s.rc = 0 THEN t ELSE [t EXCEPT !.rc[s.rc] = @ + 1]
           ELSE h,
     r |-> s]

\* delete _ref_count; / delete _deleter;
min_free(m) == IF m = "live" THEN "freed" ELSE "freed_twice"

\* (*_deleter)(_ptr): delete static_cast<T*>(p), through the deleter object.
min_run_deleter(h, d, p) ==
    [h EXCEPT !.del[p] = Cap2(@ + 1),
              !.status = IF @ # "ok" THEN @
                         ELSE IF d = 0 THEN "segv"
                         ELSE IF h.delmem[d] # "live" THEN "use_after_free"
                         ELSE IF h.del[p] > 0 THEN "double_delete"
                         ELSE @]

\* Mutant of min_dtor: the deleter object is not freed.
min_dtor_leaks(h, s) ==
    IF s.ptr = 0 THEN h
    ELSE LET t == MTouch(h, s.rc) IN
         IF s.rc = 0 THEN t
         ELSE LET t1 == [t EXCEPT !.rc[s.rc] = @ - 1] IN
              IF t1.rc[s.rc] # 0 THEN t1
              ELSE min_run_deleter(
                       [t1 EXCEPT !.rcmem[s.rc] = min_free(@)], s.del, s.ptr)

\* ~shared_ptr(): if (_ptr) if (--(*_ref_count) == 0)
\*   { delete _ref_count; (*_deleter)(_ptr); delete _deleter; }
min_dtor(h, s) ==
    IF s.ptr = 0 THEN h
    ELSE LET t == MTouch(h, s.rc) IN
         IF s.rc = 0 THEN t
         ELSE LET t1 == [t EXCEPT !.rc[s.rc] = @ - 1] IN
              IF t1.rc[s.rc] # 0 THEN t1
              ELSE LET t2 == min_run_deleter(
                                 [t1 EXCEPT !.rcmem[s.rc] = min_free(@)],
                                 s.del, s.ptr)
                   IN  IF s.del = 0 THEN t2
                       ELSE [t2 EXCEPT !.delmem[s.del] = min_free(@)]

\* long use_count() const: if (_ptr) return *_ref_count; else return 0;
min_use_count(h, s) == IF s.ptr # 0 THEN h.rc[s.rc] ELSE 0

MCommit(h) ==
    /\ _ref_count' = h.rc
    /\ rc_mem' = h.rcmem
    /\ del_mem' = h.delmem
    /\ m_deleted' = h.del
    /\ status' = h.status
    /\ UNCHANGED <<core, sp, wp, weak_this, thr, ext>>

\* The number of the next allocation.
MUnallocated == {b \in Blocks : rc_mem[b] = "unalloc"}
MNext == CHOOSE b \in MUnallocated : \A c \in MUnallocated : b <= c

\* shared_ptr<T> a; or shared_ptr<T> a(nullptr): _ptr{ nullptr }, and
\* _ref_count and _deleter are not initialised: they hold whatever was in
\* the storage, null or the addresses of the allocations number g.
MDefault(i, g) ==
    /\ Running /\ msp[i] = MEmpty
    /\ MCommit(MHeap)
    /\ msp' = [msp EXCEPT ![i] = [ptr |-> 0, rc |-> g, del |-> g]]

\* shared_ptr(T* p) on a freshly allocated object.
MWrap(i) ==
    /\ Running /\ msp[i] = MEmpty /\ MUnallocated # {}
    /\ LET c == min_wrap(MHeap, MNext, MNext) IN
       MCommit(c.h) /\ msp' = [msp EXCEPT ![i] = c.r]

\* shared_ptr(T* p) with p == nullptr.
MWrapNull(i) ==
    /\ Running /\ msp[i] = MEmpty /\ MUnallocated # {}
    /\ LET c == min_wrap(MHeap, MNext, 0) IN
       MCommit(c.h) /\ msp' = [msp EXCEPT ![i] = c.r]

\* shared_ptr(const shared_ptr& sp)
MCopy(i, j) ==
    /\ Running /\ i # j /\ msp[i] = MEmpty
    /\ LET c == min_copy(MHeap, msp[j]) IN
       MCommit(c.h) /\ msp' = [msp EXCEPT ![i] = c.r]

\* shared_ptr(shared_ptr&& sp): the members are taken and sp's are set to
\* nullptr.
MMove(i, j) ==
    /\ Running /\ i # j /\ msp[i] = MEmpty
    /\ MCommit(MHeap)
    /\ msp' = [msp EXCEPT ![i] = msp[j], ![j] = MEmpty]

\* ~shared_ptr()
MDestroy(i) ==
    /\ Running
    /\ MCommit(min_dtor(MHeap, msp[i]))
    /\ msp' = [msp EXCEPT ![i] = MEmpty]

\* operator=(const shared_ptr& sp): shared_ptr tmp{sp}; tmp.swap(*this);
\* and tmp, holding the old members of *this, is destroyed.
MCopyAssign(i, j) ==
    /\ Running
    /\ LET c == min_copy(MHeap, msp[j]) IN
       /\ MCommit(min_dtor(c.h, msp[i]))
       /\ msp' = [msp EXCEPT ![i] = c.r]

\* operator=(shared_ptr&& sp): shared_ptr{ std::move(sp) }.swap(*this);
\* i = j is a = std::move(a).
MMoveAssign(i, j) ==
    /\ Running
    /\ LET tmp   == msp[j]
           moved == [msp EXCEPT ![j] = MEmpty]
       IN  /\ MCommit(min_dtor(MHeap, moved[i]))
           /\ msp' = [moved EXCEPT ![i] = tmp]

\* void reset() noexcept: shared_ptr tmp{}; tmp.swap(*this);
MReset(i) ==
    /\ Running
    /\ MCommit(min_dtor(MHeap, msp[i]))
    /\ msp' = [msp EXCEPT ![i] = MEmpty]

\* void reset(U* p): shared_ptr tmp{p}; tmp.swap(*this); on a fresh object.
MResetPtr(i) ==
    /\ Running /\ MUnallocated # {}
    /\ LET c == min_wrap(MHeap, MNext, MNext) IN
       /\ MCommit(min_dtor(c.h, msp[i]))
       /\ msp' = [msp EXCEPT ![i] = c.r]

\* reset(p) with p == nullptr.
MResetNull(i) ==
    /\ Running /\ MUnallocated # {}
    /\ LET c == min_wrap(MHeap, MNext, 0) IN
       /\ MCommit(min_dtor(c.h, msp[i]))
       /\ msp' = [msp EXCEPT ![i] = c.r]

NextMin ==
    \/ \E i \in Cells, g \in 0..MaxBlocks : MDefault(i, g)
    \/ \E i \in Cells : MWrap(i)
    \/ \E i, j \in Cells : MCopy(i, j)
    \/ \E i, j \in Cells : MMove(i, j)
    \/ \E i \in Cells : MDestroy(i)
    \/ \E i, j \in Cells : MCopyAssign(i, j)
    \/ \E i, j \in Cells : MMoveAssign(i, j)
    \/ \E i \in Cells : MReset(i)
    \/ \E i \in Cells : MResetPtr(i)

SpecMin == Init /\ [][NextMin]_vars

\* The same program, given null pointers to wrap as well.
NextMinNull ==
    \/ NextMin
    \/ \E i \in Cells : MWrapNull(i)
    \/ \E i \in Cells : MResetNull(i)

SpecMinNull == Init /\ [][NextMinNull]_vars

(***************************************************************************)
(* Properties.                                                             *)
(***************************************************************************)
\* The shared_ptrs and the weak_ptrs of the sequential program that hold
\* control block b.
Owners(b) == {i \in Cells : sp[i].cb = b}
WeakOwners(b) == {i \in Cells : wp[i].cb = b}

\* C1 (sp::shared_ptr, handlers one at a time): use_count() of every
\* shared_ptr that holds a control block equals the number of live
\* shared_ptrs holding that block; the deleter runs on an object at most
\* once, and it runs in exactly the steps that take the strong count of the
\* object's block from 1 to 0.
C1_UseCountIsOwners ==
    \A i \in Cells : sp[i].cb # 0 =>
        sp_use_count(Heap, sp[i]) = Cardinality(Owners(sp[i].cb))
C1_DeleterStep ==
    \A b \in Blocks :
        (deleted'[b] # deleted[b]) <=>
            (_use_count[b] = 1 /\ _use_count'[b] = 0)
C1_CountAndDeleteOnce ==
    /\ [](C1_UseCountIsOwners /\ \A p \in Ptrs : deleted[p] <= 1)
    /\ [][C1_DeleterStep]_vars
\* An object has been destroyed while another one has two owners.
C1_Witness ==
    \E b, c \in Blocks :
        /\ deleted[b] = 1 /\ _use_count[b] = 0
        /\ Cardinality(Owners(c)) = 2 /\ _use_count[c] = 2

\* C2: a control block is deleted at most once, in exactly the steps that
\* take its weak counter from 1 to 0, and a deleted block has strong count 0
\* and an object the deleter has already run on.
C2_FreedAfterObject ==
    \A b \in Blocks :
        /\ cb_mem[b] # "freed_twice"
        /\ cb_mem[b] = "freed" =>
              /\ _use_count[b] = 0 /\ _weak_use_count[b] = 0
              /\ _impl[b] # 0 => deleted[_impl[b]] = 1
C2_FreeStep ==
    \A b \in Blocks :
        (cb_mem[b] = "live" /\ cb_mem'[b] # "live") <=>
            (_weak_use_count[b] = 1 /\ _weak_use_count'[b] = 0)
C2_BlockDeletedOnce == []C2_FreedAfterObject /\ [][C2_FreeStep]_vars
\* One block is deleted; another has lost its object and is kept by a
\* weak_ptr.
C2_Witness ==
    \E b, c \in Blocks :
        /\ cb_mem[b] = "freed"
        /\ cb_mem[c] = "live" /\ _use_count[c] = 0 /\ deleted[c] = 1
        /\ WeakOwners(c) # {}

\* C5: for a weak_ptr bound to a control block, expired() is false exactly
\* while a shared_ptr of that block is live, turns true exactly in the steps
\* that take the strong count to 0, and once true stays true for as long as
\* the weak_ptr is bound to the block.
C5_ExpiredIffNoOwner ==
    \A w \in Cells : wp[w].cb # 0 =>
        (wp_expired(Heap, wp[w]) <=> Owners(wp[w].cb) = {})
C5_ExpiredStep ==
    \A w \in Cells : (wp[w].cb # 0 /\ wp'[w] = wp[w]) =>
        /\ wp_expired(Heap, wp[w]) => wp_expired(Heap, wp[w])'
        /\ (~wp_expired(Heap, wp[w]) /\ wp_expired(Heap, wp[w])') <=>
              (_use_count[wp[w].cb] > 0 /\ _use_count'[wp[w].cb] = 0)
C5_ExpiredForGood == []C5_ExpiredIffNoOwner /\ [][C5_ExpiredStep]_vars
\* A bound weak_ptr is expired, and the program has gone on: a second object
\* is owned.
C5_Witness ==
    \E w \in Cells, c \in Blocks :
        /\ wp[w].cb # 0 /\ wp_expired(Heap, wp[w]) /\ deleted[wp[w].cb] = 1
        /\ c # wp[w].cb /\ Owners(c) # {}

\* C6: lock() on a weak_ptr without a strong owner (use_count() == 0)
\* returns an empty shared_ptr and changes no counter; on any other weak_ptr
\* it returns a shared_ptr with the weak_ptr's stored pointer and a
\* use_count() one greater than before the call.
C6_LockStep ==
    \A i, w \in Cells : Lock(i, w) =>
        /\ status' = "ok"
        /\ IF wp_use_count(Heap, wp[w]) = 0
           THEN /\ sp'[i] = Empty
                /\ _use_count' = _use_count
                /\ _weak_use_count' = _weak_use_count
           ELSE /\ sp'[i].ptr = wp[w].ptr
                /\ sp_use_count(Heap, sp[i])' = wp_use_count(Heap, wp[w]) + 1
C6_LockResult == [][C6_LockStep]_vars

\* C7: shared_ptr(const weak_ptr&) on a weak_ptr whose control block has
\* strong count 0 throws bad_weak_ptr, builds nothing and changes no
\* counter; on a weak_ptr whose block has a strong owner it shares the
\* block, adds one to the strong count only, and use_count() of the result
\* equals use_count() of the weak_ptr.
C7_FromWeakStep ==
    \A i, w \in Cells : (FromWeak(i, w) /\ wp[w].cb # 0) =>
        IF cb_use_count(Heap, wp[w].cb) = 0
        THEN /\ status' = "bad_weak_ptr"
             /\ sp' = sp
             /\ _use_count' = _use_count
             /\ _weak_use_count' = _weak_use_count
        ELSE /\ status' = "ok"
             /\ sp'[i].cb = wp[w].cb
             /\ _use_count' =
                  [_use_count EXCEPT ![wp[w].cb] = _use_count[wp[w].cb] + 1]
             /\ _weak_use_count' = _weak_use_count
             /\ sp_use_count(Heap, sp[i])' = wp_use_count(Heap, wp[w])'
C7_FromWeakThrowsOrShares == [][C7_FromWeakStep]_vars
\* The last handler threw bad_weak_ptr, and an expired weak_ptr is there.
C7_Witness ==
    /\ status = "bad_weak_ptr"
    /\ \E w \in Cells : wp[w].cb # 0 /\ _use_count[wp[w].cb] = 0

\* C8: shared_from_this() on an object that no shared_ptr ever wrapped
\* throws bad_weak_ptr to its caller, returns no shared_ptr and touches no
\* control block.
C8_NeverWrappedStep ==
    \A i \in Cells, o \in Blocks :
        (SharedFromThis(i, o) /\ cb_mem[o] = "unalloc") =>
            /\ status' = "bad_weak_ptr"
            /\ sp' = sp
            /\ _use_count' = _use_count
            /\ _weak_use_count' = _weak_use_count
C8_NeverWrappedThrows == [][C8_NeverWrappedStep]_vars

\* C9: the wrapping constructor binds the object's weak_this to the new
\* control block, and shared_from_this() on a wrapped, living object returns
\* a shared_ptr on that block and adds one to its strong count.
C9_WrapStep ==
    \A i \in Cells : Wrap(i) => weak_this'[NextBlock].cb = NextBlock
C9_SharedFromThisStep ==
    \A i \in Cells, o \in Blocks :
        (SharedFromThis(i, o) /\ Owners(o) # {}) =>
            /\ status' = "ok"
            /\ sp'[i].cb = o
            /\ _use_count'[o] = _use_count[o] + 1
C9_SharedFromThisShares == [][C9_WrapStep /\ C9_SharedFromThisStep]_vars

\* C10: the aliasing constructor stores p, shares the source's control
\* block and reports the source's use_count(); the deleter runs only on the
\* object a block was created for, never on an aliased pointer, and only
\* once no shared_ptr, source or alias, holds the block.
C10_AliasStep ==
    \A i, j \in Cells, p \in AliasPtrs : Alias(i, j, p) =>
        /\ status' = "ok"
        /\ sp'[i] = [ptr |-> p, cb |-> sp[j].cb]
        /\ sp'[j] = sp[j]
        /\ sp_use_count(Heap, sp[i])' = sp_use_count(Heap, sp[j])'
        /\ sp_use_count(Heap, sp[j])' = sp_use_count(Heap, sp[j]) + 1
C10_DeleterTarget ==
    /\ \A p \in Ptrs \ Blocks : deleted[p] = 0
    /\ \A b \in Blocks : deleted[b] > 0 =>
          /\ _impl[b] = b
          /\ _use_count[b] = 0
          /\ Owners(b) = {}
C10_AliasSharesOwnership == []C10_DeleterTarget /\ [][C10_AliasStep]_vars
\* The alias is the only owner left, and the object is still there.
C10_Witness ==
    \E i \in Cells :
        /\ sp[i].cb # 0 /\ sp[i].ptr = Member
        /\ Owners(sp[i].cb) = {i} /\ _use_count[sp[i].cb] = 1
        /\ deleted[sp[i].cb] = 0

\* The shared_ptrs and weak_ptrs of the threads that hold control block b.
TOwnerCount(b) ==
    Cardinality({t \in Threads : tsp[t].cb = b})
        + Cardinality({t \in Threads : tres[t].cb = b})
TWeakCount(b) == Cardinality({t \in Threads : twp[t].cb = b})
\* No thread is inside a handler.
Quiescent == \A t \in Threads : pc[t] = "idle"
\* A thread is inside the dec_ref() that took the strong count to 0 and
\* has not yet given up the weak unit of the strong owners.
Releasing(b) ==
    \E t \in Threads : tcb[t] = b /\ pc[t] \in {"deleter", "dec_wref"}

\* C3 (threads with lock()): the strong count never goes from 0 back to 1,
\* no exception ends the noexcept lock(), the deleter never runs twice on an
\* object, and the shared_ptr lock() returns is empty or points to an object
\* that has not been destroyed.
C3_LockStep ==
    /\ \A b \in Blocks : ~(_use_count[b] = 0 /\ _use_count'[b] = 1)
    /\ status' # "terminate"
    /\ \A p \in Ptrs : deleted'[p] <= 1
    /\ \A t \in Threads : (pc[t] = "locked" /\ pc'[t] = "idle") =>
          (tres'[t] = Empty \/ deleted'[tres'[t].ptr] = 0)
C3_LockIndivisible == [][C3_LockStep]_vars

\* C4 (threads that copy and destroy their own references): in every state
\* the strong counter equals the number of live shared_ptrs and the weak
\* counter the number of live weak_ptrs plus the unit of the strong owners;
\* the object is destroyed at most once and only when no shared_ptr is left,
\* and the block is deleted at most once and only when no reference is
\* left; when all threads are done with everything, both are gone.
C4_CountersMatch ==
    /\ status = "ok"
    /\ \A p \in Ptrs : deleted[p] <= 1
    /\ \A b \in Blocks : cb_mem[b] # "freed_twice"
    /\ \A b \in Blocks : cb_mem[b] = "live" =>
          /\ _use_count[b] = TOwnerCount(b)
          /\ _weak_use_count[b] = TWeakCount(b)
                + (IF _use_count[b] > 0 \/ Releasing(b) THEN 1 ELSE 0)
          /\ deleted[b] = 1 => TOwnerCount(b) = 0
          /\ (Quiescent /\ TOwnerCount(b) = 0) => deleted[b] = 1
          /\ Quiescent => (TOwnerCount(b) > 0 \/ TWeakCount(b) > 0)
    /\ \A b \in Blocks : cb_mem[b] = "freed" =>
          /\ deleted[b] = 1
          /\ TOwnerCount(b) = 0 /\ TWeakCount(b) = 0
\* All threads have dropped everything: object destroyed, block deleted.
C4_Witness ==
    /\ Quiescent /\ cb_mem[1] = "freed" /\ deleted[1] = 1
    /\ TOwnerCount(1) = 0 /\ TWeakCount(1) = 0

\* C11 as stated: every move construction and every move assignment gives
\* the target the source's pair, leaves the source empty and leaves both
\* counters of the transferred control block as they were.
C11_MoveStep ==
    \A i, j \in Cells : (Move(i, j) \/ MoveAssign(i, j)) =>
        /\ sp'[i] = sp[j]
        /\ sp'[j] = Empty
        /\ sp[j].cb # 0 =>
              /\ _use_count'[sp[j].cb] = _use_count[sp[j].cb]
              /\ _weak_use_count'[sp[j].cb] = _weak_use_count[sp[j].cb]
C11_MoveLeavesCounters == [][C11_MoveStep]_vars

\* C11 amended: a move construction, and a move assignment from another
\* variable, give the target the source's pair and leave the source empty;
\* the weak counter of the transferred block is unchanged, and its strong
\* counter is unchanged unless the target of the assignment held that same
\* block, whose share is then released (one less).  A move assignment of a
\* variable to itself leaves the variable and all counters as they were.
C11_MovedStep ==
    \A i, j \in Cells :
        /\ (Move(i, j) \/ (MoveAssign(i, j) /\ i # j)) =>
              /\ status' = "ok"
              /\ sp'[i] = sp[j]
              /\ sp'[j] = Empty
              /\ sp[j].cb # 0 =>
                    /\ _use_count'[sp[j].cb] = _use_count[sp[j].cb]
                          - (IF sp[i].cb = sp[j].cb THEN 1 ELSE 0)
                    /\ _weak_use_count'[sp[j].cb] = _weak_use_count[sp[j].cb]
        /\ MoveAssign(i, i) =>
              /\ sp' = sp
              /\ _use_count' = _use_count
              /\ _weak_use_count' = _weak_use_count
C11_MoveTransfers == [][C11_MovedStep]_vars
\* A variable is empty, the only owner of a block that a weak_ptr watches
\* is another variable, and the object of a second block has been released.
C11_Witness ==
    \E i, j \in Cells, c \in Blocks :
        /\ i # j /\ sp[j] = Empty /\ wp[j] = Empty
        /\ sp[i].cb # 0 /\ Owners(sp[i].cb) = {i}
        /\ _use_count[sp[i].cb] = 1 /\ _weak_use_count[sp[i].cb] = 2
        /\ c # sp[i].cb /\ deleted[c] = 1

\* C12 (program with deleters): shared_ptr(unique_ptr&&) on a unique_ptr
\* holding P gives a shared_ptr with get() = P and use_count() = 1 on a
\* control block that did not exist before and is bound to the unique_ptr's
\* deleter, leaves the unique_ptr with a null pointer and runs no deleter;
\* an object that has a control block is never given to a unique_ptr's
\* deleter, and is given to its block's deleter at most once, exactly when
\* the block has no strong owner left.
C12_FromUniqueStep ==
    \A i \in Cells, u \in UCells : FromUnique(i, u) =>
        /\ status' = "ok"
        /\ sp'[i].ptr = up[u].ptr
        /\ sp'[i].cb # 0
        /\ cb_mem[sp'[i].cb] = "unalloc" /\ cb_mem'[sp'[i].cb] = "live"
        /\ sp_use_count(Heap, sp[i])' = 1
        /\ _impl'[sp'[i].cb] = up[u].ptr
        /\ _deleter'[sp'[i].cb] = up[u].del
        /\ up'[u].ptr = 0
        /\ deleted' = deleted /\ up_deleted' = up_deleted
C12_DestroyedBySharedSide ==
    /\ \A p \in Ptrs : deleted[p] + up_deleted[p] <= 1
    /\ \A p \in Blocks : (cb_mem[p] # "unalloc" /\ _impl[p] = p) =>
          /\ up_deleted[p] = 0
          /\ deleted[p] = 1 <=> _use_count[p] = 0
C12_FromUniqueTakesOver ==
    []C12_DestroyedBySharedSide /\ [][C12_FromUniqueStep]_vars
\* A unique_ptr with a custom deleter has been emptied by the conversion,
\* and an object has been destroyed by a control block bound to that
\* deleter.
C12_Witness ==
    \E u \in UCells, p \in Blocks :
        /\ up[u] = [ptr |-> 0, del |-> "custom"]
        /\ _deleter[p] = "custom" /\ _impl[p] = p
        /\ deleted[p] = 1 /\ up_deleted[p] = 0 /\ cb_mem[p] = "freed"

\* C13: a successful static, const, reinterpret or dynamic pointer cast of
\* a shared_ptr that holds a control block gives a shared_ptr on the same
\* block (neither owner_before the other), adds one to the strong count and
\* leaves the weak counter and the source alone; casting the result back
\* gives the source's block again, and once both results are destroyed the
\* heap is what it was before the casts.
C13_CastStep ==
    \A i, j \in Cells : (sp[j].cb # 0 /\ Free(i)) =>
      \A p \in StaticPtrs(sp[j]) :
        ( \/ StaticCast(i, j, p)
          \/ ConstCast(i, j)
          \/ (DynamicCast(i, j, p) /\ p # 0) ) =>
            /\ status' = "ok"
            /\ sp'[i].cb = sp[j].cb /\ sp'[j] = sp[j]
            /\ ~owner_before(sp'[i], sp[j]) /\ ~owner_before(sp[j], sp'[i])
            /\ _use_count' =
                 [_use_count EXCEPT ![sp[j].cb] = _use_count[sp[j].cb] + 1]
            /\ _weak_use_count' = _weak_use_count
            /\ sp_use_count(Heap, sp[i])' = sp_use_count(Heap, sp[j]) + 1
C13_RoundTrip ==
    \A j \in Cells : sp[j].cb # 0 =>
        \A p \in StaticPtrs(sp[j]) :
            LET there == pointer_cast(Heap, sp[j], p)
                back  == pointer_cast(there.h, there.r, _impl[sp[j].cb])
                h1    == shared_dtor(back.h, back.r)
                h2    == shared_dtor(h1, there.r)
            IN  /\ back.r.cb = sp[j].cb
                /\ ~owner_before(back.r, sp[j]) /\ ~owner_before(sp[j], back.r)
                /\ sp_use_count(back.h, sp[j]) = sp_use_count(Heap, sp[j]) + 2
                /\ sp_use_count(h1, sp[j]) = sp_use_count(Heap, sp[j]) + 1
                /\ h2 = Heap
C13_CastsShareOwnership == []C13_RoundTrip /\ [][C13_CastStep]_vars
\* Source, cast and cast back are all live on one block, with different
\* stored pointers among them.
C13_Witness ==
    \E b \in Blocks :
        /\ Cardinality(Owners(b)) = 3 /\ _use_count[b] = 3
        /\ \E i, j \in Owners(b) : sp[i].ptr = Member /\ sp[j].ptr = b
        /\ deleted[b] = 0

\* C14: a dynamic_pointer_cast whose dynamic_cast fails returns an empty
\* shared_ptr (null pointer, no control block, use_count() 0), and changes
\* neither a counter nor the source.
C14_FailedCast ==
    \A j \in Cells : IsSP(j) =>
        LET c == dynamic_pointer_cast(Heap, sp[j], 0) IN
        /\ c.r = Empty /\ c.r.ptr = 0
        /\ sp_use_count(c.h, c.r) = 0
        /\ c.h = Heap
C14_FailedCastStep ==
    \A i, j \in Cells : DynamicCast(i, j, 0) =>
        /\ status' = "ok"
        /\ sp' = sp /\ sp'[i] = Empty
        /\ _use_count' = _use_count /\ _weak_use_count' = _weak_use_count
        /\ deleted' = deleted /\ cb_mem' = cb_mem
C14_FailedDynamicCastIsEmpty == []C14_FailedCast /\ [][C14_FailedCastStep]_vars
\* A source with a weak_ptr on its block, and a variable left empty: what
\* a failed cast of that source leaves behind.
C14_Witness ==
    \E j, i, w \in Cells :
        /\ sp[j].cb # 0 /\ _use_count[sp[j].cb] = 1
        /\ wp[w].cb = sp[j].cb
        /\ Free(i)

\* C15 (program with deleters): reset(), reset(p) and reset(p, d) release
\* the pair the shared_ptr held as its destructor does: the strong count of
\* the old block drops by one and its object is given to the deleter exactly
\* when that was the last owner; no other shared_ptr changes.  reset()
\* leaves the shared_ptr empty; reset(p) and reset(p, d) leave it with
\* get() = p and use_count() = 1 on a control block that did not exist
\* before, bound to default_delete or to d.
C15_Released(i) ==
    /\ status' = "ok"
    /\ \A k \in Cells \ {i} : sp'[k] = sp[k]
    /\ sp[i].cb # 0 =>
          LET b == sp[i].cb IN
          /\ _use_count'[b] = _use_count[b] - 1
          /\ \A p \in Ptrs :
                deleted'[p] = deleted[p]
                    + (IF p = _impl[b] /\ p # 0 /\ _use_count[b] = 1
                       THEN 1 ELSE 0)
          /\ (cb_mem'[b] # "live") <=>
                (_use_count[b] = 1 /\ _weak_use_count[b] = 1)
C15_Rebound(i, d) ==
    LET b == sp'[i].cb IN
    /\ b # 0 /\ b # sp[i].cb
    /\ cb_mem[b] = "unalloc" /\ cb_mem'[b] = "live"
    /\ sp'[i].ptr = _impl'[b] /\ sp'[i].ptr # 0
    /\ deleted'[sp'[i].ptr] = 0
    /\ sp_use_count(Heap, sp[i])' = 1
    /\ _weak_use_count'[b] = 1
    /\ _deleter'[b] = d
C15_ResetStep ==
    \A i \in Cells :
        /\ Reset(i) => (C15_Released(i) /\ sp'[i] = Empty)
        /\ ResetPtr(i) => (C15_Released(i) /\ C15_Rebound(i, "default_delete"))
        /\ \A d \in Deleters :
              ResetPtrDeleter(i, d) => (C15_Released(i) /\ C15_Rebound(i, d))
C15_ResetReleases == [][C15_ResetStep]_vars
\* The last owner of one object was rebound by reset(p, d): that object is
\* destroyed and its block deleted, the new block has one owner.
C15_Witness ==
    \E i \in Cells, b \in Blocks :
        /\ sp[i].cb # 0 /\ sp[i].cb # b
        /\ _deleter[sp[i].cb] = "custom" /\ _use_count[sp[i].cb] = 1
        /\ deleted[b] = 1 /\ cb_mem[b] = "freed"
        /\ \A k \in Cells \ {i} : sp[k] = Empty
        /\ \A u \in UCells : up[u] = NoUnique

\* C16: a weak_ptr that holds no control block, default-constructed or just
\* reset, reports use_count() = 0 and expired() = true.
C16_EmptyWeak ==
    \A w \in Cells : (IsWP(w) /\ wp[w].cb = 0) =>
        /\ wp_use_count(Heap, wp[w]) = 0
        /\ wp_expired(Heap, wp[w])
C16_ResetStep ==
    \A w \in Cells : WeakReset(w) =>
        /\ wp'[w].cb = 0
        /\ wp_use_count(Heap, wp[w])' = 0
        /\ wp_expired(Heap, wp[w])'
C16_EmptyWeakIsExpired == []C16_EmptyWeak /\ [][C16_ResetStep]_vars

\* C17: constructing a weak_ptr from a shared_ptr or a weak_ptr, assigning,
\* swapping, resetting and destroying it, and a promotion that yields no
\* shared_ptr, leave every strong count and every object as they were;
\* construction adds one to the weak counter of the source's block, reset
\* and destruction take one from the weak counter of the block held,
\* assignment does both, swap changes no counter; use_count() of a new
\* weak_ptr equals the source's; and in every state an object whose block
\* has no shared_ptr left has been destroyed, weak_ptrs or not.
C17_WeakCounters(plus, minus) ==
    [b \in Blocks |-> _weak_use_count[b] + (IF b = plus THEN 1 ELSE 0)
                                         - (IF b = minus THEN 1 ELSE 0)]
C17_StrongSame(h) ==
    /\ h.status = "ok" /\ h.use = _use_count /\ h.del = deleted
\* The handlers applied to the pointers of every reachable state.
C17_WeakOps ==
    \A w \in Cells : IsWP(w) =>
        /\ LET d == weak_dtor(Heap, wp[w]) IN
           /\ C17_StrongSame(d)
           /\ d.weak = C17_WeakCounters(0, wp[w].cb)
        /\ (wp[w].cb # 0 /\ lock(Heap, wp[w]).r = Empty) =>
              lock(Heap, wp[w]).h = Heap
        /\ \A j \in Cells : \A src \in {sp[j], wp[j]} :
              LET c == weak_ctor(Heap, src)
                  a == weak_dtor(c.h, wp[w])
              IN  /\ C17_StrongSame(c.h)
                  /\ c.h.weak = C17_WeakCounters(src.cb, 0)
                  /\ c.r = src
                  /\ wp_use_count(c.h, c.r) = sp_use_count(Heap, src)
                  /\ C17_StrongSame(a)
                  /\ a.weak = C17_WeakCounters(src.cb, wp[w].cb)
C17_NoDelay ==
    \A b \in Blocks :
        (cb_mem[b] # "unalloc" /\ Owners(b) = {}) =>
            (_use_count[b] = 0 /\ deleted[b] = 1)
\* The steps of the handlers of one weak_ptr.
C17_WeakStep ==
    \A w \in Cells :
        (WeakReset(w) \/ WeakDestroy(w) \/ WeakAssign(w, w)) =>
            /\ status' = "ok"
            /\ _use_count' = _use_count /\ sp' = sp /\ deleted' = deleted
            /\ _weak_use_count' =
                 IF wp'[w] = Empty THEN C17_WeakCounters(0, wp[w].cb)
                 ELSE _weak_use_count
C17_WeakLeavesStrongAlone ==
    [](C17_WeakOps /\ C17_NoDelay) /\ [][C17_WeakStep]_vars
\* Two weak_ptrs watch a block whose object is destroyed, while another
\* object is owned.
C17_Witness ==
    \E b, c \in Blocks :
        /\ Cardinality(WeakOwners(b)) = 2 /\ Owners(b) = {}
        /\ deleted[b] = 1 /\ cb_mem[b] = "live" /\ _weak_use_count[b] = 2
        /\ c # b /\ cb_mem[c] = "freed"

\* The shared_ptrs and weak_ptrs the program holds.
Held == {sp[i] : i \in Cells} \cup {wp[i] : i \in Cells}

\* C18: every pointer held refers to no block or to a live one, so that
\* different blocks are at different addresses; two pointers on one block
\* are equivalent under owner_before (neither is before the other), also
\* when their stored pointers differ and operator== is false; of two
\* pointers on different blocks exactly one is before the other; and
\* owner_before is irreflexive and transitive.  operator== holds exactly
\* for equal stored pointers, whatever the blocks.
C18_OwnerOrder ==
    /\ \A x \in Held : x.cb # 0 => cb_mem[x.cb] = "live"
    /\ \A x, y \in Held :
          /\ x.cb = y.cb => (~owner_before(x, y) /\ ~owner_before(y, x))
          /\ x.cb # y.cb => (owner_before(x, y) <=> ~owner_before(y, x))
          /\ (x.cb = y.cb /\ x.ptr # y.ptr) => ~sp_equal(x, y)
          /\ sp_equal(x, y) <=> (x.ptr = y.ptr)
          /\ \A z \in Held :
                (owner_before(x, y) /\ owner_before(y, z)) => owner_before(x, z)
\* A shared_ptr and an alias of it with another stored pointer, and a
\* weak_ptr on a different block.
C18_Witness ==
    \E i, j, w \in Cells :
        /\ sp[i].cb # 0 /\ sp[i].cb = sp[j].cb /\ sp[i].ptr # sp[j].ptr
        /\ wp[w].cb # 0 /\ wp[w].cb # sp[i].cb

\* C19 (program with deleters and get_deleter): get_deleter<D>(sp) returns
\* the address of the deleter of sp's control block when sp holds a block
\* whose deleter is of type D, and a null pointer when the block's deleter
\* is of another type or sp holds no block; it always returns.
C19_GetDeleterStep ==
    \A i \in Cells, D \in Deleters : GetDeleter(i, D) =>
        /\ status' = "ok"
        /\ got' = IF sp[i].cb # 0 /\ _deleter[sp[i].cb] = D
                  THEN [cb |-> sp[i].cb, type |-> D]
                  ELSE NoDeleter
C19_GetDeleterTyped == [][C19_GetDeleterStep]_vars

\* C20 (sp::control_block, handlers one at a time): a control block is
\* created with _use_count = 1 and _weak_use_count = 1; in every state of a
\* live block _weak_use_count equals the number of live weak_ptrs bound to
\* the block plus 1 if _use_count > 0, and weak_use_count() returns exactly
\* the number of live weak_ptrs bound to the block.
C20_WeakCounter ==
    \A b \in Blocks : cb_mem[b] = "live" =>
        /\ _weak_use_count[b] =
               Cardinality(WeakOwners(b)) + (IF _use_count[b] > 0 THEN 1 ELSE 0)
        /\ cb_weak_use_count(Heap, b) = Cardinality(WeakOwners(b))
C20_CreationStep ==
    \A b \in Blocks : (cb_mem[b] = "unalloc" /\ cb_mem'[b] = "live") =>
        _use_count'[b] = 1 /\ _weak_use_count'[b] = 1
C20_WeakCounterIsWeakPtrs == []C20_WeakCounter /\ [][C20_CreationStep]_vars
\* A live block without owners that two weak_ptrs keep, next to a live
\* block with an owner and no weak_ptr.
C20_Witness ==
    \E b, c \in Blocks :
        /\ cb_mem[b] = "live" /\ _use_count[b] = 0
        /\ Cardinality(WeakOwners(b)) = 2 /\ _weak_use_count[b] = 2
        /\ cb_mem[c] = "live" /\ _use_count[c] = 1
        /\ WeakOwners(c) = {} /\ _weak_use_count[c] = 1

\* C21 (sp::unique_ptr, handlers one at a time, reset(p) given only
\* pointers no unique_ptr owns): at most one unique_ptr holds a given
\* non-null pointer; release() returns the stored pointer to the caller,
\* leaves the unique_ptr empty and runs no deleter; an object leaves its
\* owner either through release(), and then no deleter has run on it, or
\* through exactly one deleter call, and a deleter runs on no other object.
UHolders(p) == {u \in UCells : up[u].ptr = p}
C21_OneOwner ==
    \A p \in Blocks :
        /\ Cardinality(UHolders(p)) <= 1
        /\ up_deleted[p] <= 1
        /\ UHolders(p) # {} => up_deleted[p] = 0 /\ ~released[p]
        /\ released[p] => up_deleted[p] = 0
C21_ReleaseStep ==
    \A u \in UCells : (URelease(u) /\ up[u].ptr # 0) =>
        /\ up'[u].ptr = 0
        /\ released'[up[u].ptr]
        /\ up_deleted' = up_deleted
C21_DeleterStep ==
    \A p \in Blocks :
        /\ (UHolders(p) # {} /\ UHolders(p)' = {}) =>
               IF released'[p] THEN up_deleted'[p] = 0
               ELSE up_deleted'[p] = 1
        /\ up_deleted'[p] # up_deleted[p] =>
               UHolders(p) # {} /\ UHolders(p)' = {} /\ ~released'[p]
C21_SelfAssignStep ==
    \A u \in UCells : (UMoveAssign(u, u) /\ up[u].ptr # 0) =>
        up' = up /\ up_deleted' = up_deleted
C21_UniqueOwnership ==
    /\ []C21_OneOwner
    /\ [][C21_ReleaseStep /\ C21_DeleterStep /\ C21_SelfAssignStep]_vars
\* One object was deleted by its owner, another was handed out by
\* release() and never deleted, and a unique_ptr that was given a custom
\* deleter owns nothing any more.
C21_Witness ==
    \E p, q \in Blocks, u \in UCells :
        /\ p # q
        /\ up_deleted[p] = 1 /\ released[q] /\ up_deleted[q] = 0
        /\ up[u].ptr = 0 /\ up[u].del = "custom"

\* C22 (minimal ::shared_ptr, handlers one at a time, wrapping non-null
\* pointers): use_count() is 0 for an empty shared_ptr and otherwise the
\* number of live shared_ptrs that store the object; the destructor of an
\* empty shared_ptr, or of one with use_count() > 1, frees nothing, and the
\* destructor of the last owner deletes the object, the counter and the
\* deleter object, each exactly once.
MOwners(p) == {i \in Cells : msp[i].ptr = p}
C22_UseCountIsOwners ==
    /\ status = "ok"
    /\ \A i \in Cells :
           min_use_count(MHeap, msp[i]) =
               IF msp[i].ptr = 0 THEN 0
               ELSE Cardinality(MOwners(msp[i].ptr))
    /\ \A b \in Blocks :
           /\ m_deleted[b] <= 1
           /\ rc_mem[b] # "freed_twice" /\ del_mem[b] # "freed_twice"
C22_DestroyStep ==
    \A i \in Cells : MDestroy(i) =>
        LET s == msp[i] IN
        IF s.ptr = 0 \/ min_use_count(MHeap, s) > 1
        THEN rc_mem' = rc_mem /\ del_mem' = del_mem /\ m_deleted' = m_deleted
        ELSE /\ m_deleted[s.ptr] = 0 /\ m_deleted'[s.ptr] = 1
             /\ rc_mem[s.rc] = "live" /\ rc_mem'[s.rc] = "freed"
             /\ del_mem[s.del] = "live" /\ del_mem'[s.del] = "freed"
C22_MinimalCounts == []C22_UseCountIsOwners /\ [][C22_DestroyStep]_vars
\* One object was deleted with its counter and its deleter object, and two
\* shared_ptrs share another one next to a default-constructed shared_ptr.
C22_Witness ==
    \E p, q \in Blocks, i \in Cells :
        /\ m_deleted[p] = 1 /\ rc_mem[p] = "freed" /\ del_mem[p] = "freed"
        /\ Cardinality(MOwners(q)) = 2 /\ _ref_count[q] = 2
        /\ msp[i].ptr = 0 /\ msp[i].rc = q

\* C30 (minimal ::shared_ptr, handlers one at a time, null pointers wrapped
\* as well): a counter or a deleter object that shared_ptr(T* p) or
\* reset(p) allocated and that no live shared_ptr points to any more has
\* been freed.
C30_CounterAndDeleterFreed ==
    \A b \in Blocks :
        (rc_mem[b] = "live" \/ del_mem[b] = "live") =>
            \E i \in Cells : msp[i].rc = b \/ msp[i].del = b

\* C23 (sp::shared_ptr and sp::weak_ptr, handlers one at a time): once no
\* shared_ptr and no weak_ptr holds a control block that was created, its
\* object has been destroyed and the block has been deleted; the step that
\* destroys the object deletes the block as well exactly if no weak_ptr
\* holds the block, and otherwise the block stays until the step after
\* which no weak_ptr holds it.
C23_NoLeak ==
    \A b \in Blocks :
        (cb_mem[b] # "unalloc" /\ Owners(b) = {} /\ WeakOwners(b) = {}) =>
            cb_mem[b] = "freed" /\ deleted[_impl[b]] = 1
C23_ReleaseStep ==
    \A b \in Blocks : cb_mem[b] = "live" =>
        /\ (deleted[_impl[b]] = 0 /\ deleted'[_impl[b]] = 1) =>
               IF WeakOwners(b) = {} THEN cb_mem'[b] = "freed"
               ELSE cb_mem'[b] = "live"
        /\ cb_mem'[b] # "live" =>
               /\ cb_mem'[b] = "freed"
               /\ Owners(b)' = {} /\ WeakOwners(b)' = {}
               /\ deleted'[_impl[b]] = 1
C23_NothingLeaks == []C23_NoLeak /\ [][C23_ReleaseStep]_vars
\* One block went with its object, no weak_ptr holding it; another one
\* outlives its object because a weak_ptr holds it.
C23_Witness ==
    \E b, c \in Blocks :
        /\ cb_mem[b] = "freed" /\ deleted[b] = 1
        /\ cb_mem[c] = "live" /\ deleted[c] = 1 /\ _use_count[c] = 0
        /\ WeakOwners(c) # {}

\* C24 (threads that destroy their own shared_ptrs and weak_ptrs): the weak
\* counter of a block reaches 0 in one decrement only, and the thread that
\* made it is the only one to reach `delete this`; at that point no other
\* thread is inside a member of the block and no pointer holds it; the
\* block is deleted once, and no thread touches it afterwards.
TInside(b) == {t \in Threads : pc[t] # "idle" /\ tcb[t] = b}
TDeleting(b) == {t \in Threads : pc[t] = "delete_this" /\ tcb[t] = b}
C24_OneDeleter ==
    /\ status # "use_after_free"
    /\ \A b \in Blocks :
           /\ cb_mem[b] # "freed_twice"
           /\ TDeleting(b) # {} =>
                  /\ cb_mem[b] = "live" /\ _weak_use_count[b] = 0
                  /\ Cardinality(TInside(b)) = 1
                  /\ TOwnerCount(b) = 0 /\ TWeakCount(b) = 0
           /\ cb_mem[b] = "freed" => TInside(b) = {}
C24_ZeroStep ==
    \A b \in Blocks : cb_mem[b] = "live" =>
        /\ (_weak_use_count[b] # 0 /\ _weak_use_count'[b] = 0) =>
               Cardinality(TDeleting(b)') = 1 /\ TDeleting(b) = {}
        /\ _weak_use_count[b] = 0 => _weak_use_count'[b] = 0
        /\ cb_mem'[b] # "live" => TDeleting(b) # {} /\ cb_mem'[b] = "freed"
C24_BlockDeletedByOneThread == []C24_OneDeleter /\ [][C24_ZeroStep]_vars
\* One thread is inside the dec_ref() of the last shared_ptr, the object
\* destroyed and dec_wref() still to come, while another thread holds a
\* weak_ptr of the block it is about to destroy.
C24_Witness ==
    \E t, u \in Threads :
        /\ t # u /\ pc[t] = "dec_wref" /\ twp[u].cb = tcb[t]
        /\ _use_count[tcb[t]] = 0 /\ _weak_use_count[tcb[t]] = 2

\* C25 (sp::shared_ptr and sp::weak_ptr, handlers one at a time): no
\* shared_ptr and no weak_ptr holds a control block that has been deleted,
\* no handler touches a deleted block, and no handler calls a member
\* through a null control-block pointer.
C25_NoDanglingNoNull ==
    /\ status \notin {"segv", "ub_returned", "use_after_free"}
    /\ \A i \in Cells :
           /\ sp[i].cb # 0 => cb_mem[sp[i].cb] = "live"
           /\ wp[i].cb # 0 => cb_mem[wp[i].cb] = "live"

\* C26: lock() on a weak_ptr without a control block returns an empty
\* shared_ptr and changes no counter; shared_ptr(const weak_ptr&) on such a
\* weak_ptr throws bad_weak_ptr or builds an empty shared_ptr; neither
\* calls inc_ref() through the null pointer.
C26_EmptyWeakStep ==
    \A i, w \in Cells :
        /\ (Lock(i, w) /\ wp[w].cb = 0) =>
               /\ status' = "ok"
               /\ sp'[i] = Empty
               /\ _use_count' = _use_count
               /\ _weak_use_count' = _weak_use_count
        /\ (FromWeak(i, w) /\ wp[w].cb = 0) =>
               /\ status' \in {"ok", "bad_weak_ptr"}
               /\ sp'[i] = Empty
C26_EmptyWeakPromotion == [][C26_EmptyWeakStep]_vars

\* C27: copy assignment a = b between shared_ptrs of different control
\* blocks adds one to the strong count of b's block and takes one from the
\* strong count of a's previous block, whose object is destroyed exactly if
\* that count was 1; when a and b hold the same block, and when a is
\* assigned to itself by copy or by move, every strong count is as before
\* and no object is destroyed.
C27_CopyAssign ==
    \A i, j \in Cells : (Running /\ IsSP(i) /\ IsSP(j)) =>
        LET a == sp[i].cb
            b == sp[j].cb
            c == copy_assign(Heap, sp[i], sp[j])
        IN  /\ c.h.status = "ok"
            /\ c.r = sp[j]
            /\ IF a = b THEN c.h.use = _use_count /\ c.h.del = deleted
               ELSE /\ b # 0 => c.h.use[b] = _use_count[b] + 1
                    /\ a # 0 => /\ c.h.use[a] = _use_count[a] - 1
                                /\ c.h.del[_impl[a]] =
                                       IF _use_count[a] = 1 THEN 1 ELSE 0
                    /\ \A d \in Blocks \ {a, b} :
                           c.h.use[d] = _use_count[d]
C27_SelfMoveStep ==
    \A i \in Cells : (MoveAssign(i, i) /\ sp[i].cb # 0) =>
        /\ status' = "ok"
        /\ sp' = sp
        /\ _use_count' = _use_count /\ deleted' = deleted
C27_AssignmentCounts == []C27_CopyAssign /\ [][C27_SelfMoveStep]_vars
\* Two shared_ptrs hold one block with strong count 2 (after a = b), and
\* the object of another block, which a shared_ptr held before, has been
\* destroyed.
C27_Witness ==
    \E i, j \in Cells, b \in Blocks :
        /\ i # j /\ sp[i].cb # 0 /\ sp[i] = sp[j]
        /\ _use_count[sp[i].cb] = 2
        /\ b # sp[i].cb /\ deleted[b] = 1 /\ cb_mem[b] = "freed"

\* C28: shared_ptr(nullptr, d) makes a control block for the null pointer
\* and has use_count() == 1 and get() == nullptr; use_count() of such a
\* block is the number of shared_ptrs holding it; the step that takes its
\* strong count to 0 runs no deleter and deletes the block unless a
\* weak_ptr holds it, and the block is never deleted twice.
NullBlocks == {b \in Blocks : cb_mem[b] # "unalloc" /\ _impl[b] = 0}
C28_NullBlockCounts ==
    /\ status = "ok"
    /\ deleted[0] = 0
    /\ \A b \in NullBlocks :
           /\ cb_mem[b] \in {"live", "freed"}
           /\ deleted[b] = 0
           /\ cb_mem[b] = "live" => _use_count[b] = Cardinality(Owners(b))
           /\ \A i \in Owners(b) : sp[i].ptr = 0
           /\ (Owners(b) = {} /\ WeakOwners(b) = {}) => cb_mem[b] = "freed"
C28_WrapNullStep ==
    \A i \in Cells, d \in Deleters : WrapNull(i, d) =>
        /\ sp'[i].ptr = 0 /\ sp'[i].cb \in NullBlocks'
        /\ cb_mem[sp'[i].cb] = "unalloc"
        /\ sp_use_count(Heap, sp[i])' = 1
C28_LastOwnerStep ==
    \A b \in NullBlocks :
        (_use_count[b] = 1 /\ _use_count'[b] = 0) =>
            /\ deleted' = deleted
            /\ cb_mem'[b] = IF WeakOwners(b) = {} THEN "freed" ELSE "live"
C28_NullWithDeleter ==
    []C28_NullBlockCounts /\ [][C28_WrapNullStep /\ C28_LastOwnerStep]_vars
\* A block made for nullptr was shared by two shared_ptrs and went with
\* the last of them; another one is held by two shared_ptrs.
C28_Witness ==
    \E b, c \in NullBlocks :
        /\ cb_mem[b] = "freed" /\ deleted[0] = 0
        /\ cb_mem[c] = "live" /\ _use_count[c] = 2
        /\ Cardinality(Owners(c)) = 2

\* C29: swap on two shared_ptrs, or on two weak_ptrs, exchanges their pairs
\* of stored pointer and control block, leaves every strong counter, every
\* weak counter, every object and every block as they were, and swapped
\* again gives back both operands as they were before the first swap.
C29_SwapsBack(a, b) ==
    LET s == swap(a, b)
        t == swap(s.a, s.b)
    IN  s.a = b /\ s.b = a /\ t.a = a /\ t.b = b
C29_SwapTwice ==
    \A i, j \in Cells :
        C29_SwapsBack(sp[i], sp[j]) /\ C29_SwapsBack(wp[i], wp[j])
C29_Frame ==
    /\ status' = "ok"
    /\ _use_count' = _use_count /\ _weak_use_count' = _weak_use_count
    /\ deleted' = deleted /\ cb_mem' = cb_mem /\ _impl' = _impl
C29_SwapStep ==
    \A i, j \in Cells : (sp[i] # sp[j] \/ wp[i] # wp[j]) =>
        /\ Swap(i, j) =>
               /\ sp'[i] = sp[j] /\ sp'[j] = sp[i]
               /\ \A k \in Cells \ {i, j} : sp'[k] = sp[k]
               /\ wp' = wp
               /\ C29_Frame
        /\ WeakSwap(i, j) =>
               /\ wp'[i] = wp[j] /\ wp'[j] = wp[i]
               /\ \A k \in Cells \ {i, j} : wp'[k] = wp[k]
               /\ sp' = sp
               /\ C29_Frame
C29_SwapExchanges == []C29_SwapTwice /\ [][C29_SwapStep]_vars
\* Two shared_ptrs of different control blocks, the later block in the
\* earlier variable, and a weak_ptr: operands that a swap exchanges.
C29_Witness ==
    \E i, j, w \in Cells :
        /\ sp[i].cb # 0 /\ sp[j].cb # 0 /\ sp[i].cb # sp[j].cb
        /\ sp[i].cb > sp[j].cb /\ i < j
        /\ wp[w].cb # 0
=============================================================================
